---- MODULE Spec2Model ----
(***************************************************************************)
(* Model of the BREF hierarchy relevance/aggregation engine and navigator  *)
(* of the pollution abatement dashboard (HierarchicalBrefSelector.jsx and  *)
(* OptimizedPollutionAbatementDashboard.jsx).                              *)
(*                                                                         *)
(* JavaScript values are tagged records:                                   *)
(*   [t |-> "undef"]                      undefined / absent property      *)
(*   [t |-> "arr", items |-> <<...>>]     an array                         *)
(*   [t |-> "obj", id, name, hasMatchForPollutant,                         *)
(*          hasChildrenWithMatchForPollutant, children, entries]           *)
(*      an object; id = "" and name = "" stand for an absent (falsy)       *)
(*      property, children = Undef for an absent one, and entries is the   *)
(*      ordered list of its other own properties (a keyed map).            *)
(* Plain JS objects used as maps (count tables, relevanceScores) are       *)
(* functions whose DOMAIN is the key set.  Scores are in hundredths.       *)
(***************************************************************************)
EXTENDS Integers, Sequences, FiniteSets, TLC

VARIABLES
    selectedPollutant,          \* dashboard: active pollutant, "" = null
    selectedPollutantFilename,  \* dashboard: its filename slug, "" = null
    brefHierarchy,              \* dashboard: hierarchy handed to the selector
    loadingBrefHierarchy,       \* dashboard: loading flag
    selectedBref,               \* dashboard: active BREF node, Undef = null
    selectedBrefPath,           \* dashboard: active path, list of [id, name]
    selectedPatents,            \* dashboard: patent context set (list)
    selectedBrefs,              \* dashboard: BREF context set (list)
    expandedNodes,              \* selector: map node id -> BOOLEAN
    toggleParity,               \* per node id, the toggles applied to it, modulo 2
    showOnlyRelevant,           \* selector: filter mode
    brefRelevanceScores,        \* selector: relevance matrix in use
    patentCountCache,           \* selector: patent count table
    relevantNodesCache,         \* selector: relevant-node set (id -> TRUE)
    loadingRelevanceScores,     \* selector: loading flag
    messages,                   \* chat: transcript
    isLoading,                  \* chat: busy flag
    pendingCalls,               \* chat: callOpenAI calls awaiting their answer
    error,                      \* chat: text of the error banner, Undef = null
    topPatents,                 \* ranking box: candidate list of the pollutant
    patentIndex,                \* ranking box: patent index, Undef = null
    maxPatents,                 \* ranking box: the maxPatents prop
    dataCache,                  \* data loader: cache entries by key
    now,                        \* data loader: Date.now(), in minutes
    storeCalls,                 \* data loader: load calls awaiting their fetch
    loadCount,                  \* data loader: load calls made so far
    pendingHierarchy,           \* in-flight loadPollutantSpecificBref runs
    pendingScores,              \* in-flight fetchBrefScores runs
    initialLoad,                \* position of the dashboard's loadInitialData
    directMatches,              \* the directMatches local of the last run
    aggRuns,                    \* number of aggregation runs so far
    firstRun,                   \* observation: the tables after the first run
    traversal,                  \* a recursive traversal under way: function, level, locals
    lastEvent                   \* observation: the handler that ran last

dashVars == <<selectedPollutant, selectedPollutantFilename, brefHierarchy,
              loadingBrefHierarchy>>
selVars == <<selectedBref, selectedBrefPath>>
ctxVars == <<selectedPatents, selectedBrefs>>
viewVars == <<expandedNodes, showOnlyRelevant, toggleParity>>
aggVars == <<brefRelevanceScores, patentCountCache, relevantNodesCache,
             directMatches, aggRuns, firstRun, traversal>>
netVars == <<pendingHierarchy, pendingScores, initialLoad,
             loadingRelevanceScores>>
chatVars == <<messages, isLoading, pendingCalls, error>>
rankVars == <<topPatents, patentIndex, maxPatents>>
storeVars == <<dataCache, now, storeCalls, loadCount>>
vars == <<dashVars, selVars, ctxVars, viewVars, aggVars, netVars, chatVars,
          rankVars, storeVars, lastEvent>>

----------------------------------------------------------------------------
(* Bounds *)

MaxRowLen == 2      \* most node entries in one patent's row of the matrix
MaxRuns == 2        \* aggregation runs on one input
MaxInFlight == 3    \* most effects awaiting a fetch at once
MaxContext == 1     \* most entries in a chat-context set
MaxTop == 2         \* most entries of topPatents
MaxMessages == 5    \* longest chat transcript
MaxCalls == 2       \* most callOpenAI calls awaiting their answer
MaxLoads == 2       \* most calls of the data loader in one behaviour
MaxTime == 6        \* latest value of the clock, in minutes
MaxDepth == 65      \* deepest nesting of the generated chains of nodes

----------------------------------------------------------------------------
(* JavaScript values *)

Undef == [t |-> "undef"]

Arr(items) == [t |-> "arr", items |-> items]

Node(id, name, direct, desc, children) ==
    [t |-> "obj", id |-> id, name |-> name,
     hasMatchForPollutant |-> direct,
     hasChildrenWithMatchForPollutant |-> desc,
     children |-> children, entries |-> <<>>]

\* a plain object used as a keyed map: no id, no children property
KeyedMap(entries) ==
    [t |-> "obj", id |-> "", name |-> "",
     hasMatchForPollutant |-> FALSE,
     hasChildrenWithMatchForPollutant |-> FALSE,
     children |-> Undef, entries |-> entries]

\* an object without id that has a children property
Box(children) ==
    [t |-> "obj", id |-> "", name |-> "",
     hasMatchForPollutant |-> FALSE,
     hasChildrenWithMatchForPollutant |-> FALSE,
     children |-> children, entries |-> <<>>]

Entry(k, v) == [k |-> k, v |-> v]

IsArray(v) == v.t = "arr"
IsObject(v) == v.t \in {"arr", "obj"}      \* v && typeof v === 'object'
Truthy(v) == v.t # "undef"

EmptyMap == [k \in {} |-> 0]
Put(m, k, v) == [x \in (DOMAIN m) \cup {k} |-> IF x = k THEN v ELSE m[x]]
GetOrZero(m, k) == IF k \in DOMAIN m THEN m[k] ELSE 0      \* m[k] || 0
IsTrue(m, k) == k \in DOMAIN m /\ m[k] = TRUE              \* m[k] truthy

RELIABILITY_THRESHOLD == 68

\* maxPatents = 5, the default of the ranking box and what the dashboard passes
DefaultMaxPatents == 5

----------------------------------------------------------------------------
(* Relevance Aggregator: findRelevantNodes *)

RECURSIVE traverseNode(_, _)
RECURSIVE traverseItems(_, _, _)
RECURSIVE traverseValues(_, _, _)

\* node.forEach(childNode => traverseNode(childNode))
traverseItems(items, i, acc) ==
    IF i > Len(items) THEN acc
    ELSE traverseItems(items, i + 1, traverseNode(items[i], acc))

\* Object.values(node).forEach(childNode => if object: traverseNode(childNode))
traverseValues(entries, i, acc) ==
    IF i > Len(entries) THEN acc
    ELSE traverseValues(entries, i + 1,
             IF IsObject(entries[i].v) THEN traverseNode(entries[i].v, acc)
             ELSE acc)

\* hasMatchForPollutant || hasChildrenWithMatchForPollutant
isFlaggedDirectOnly(node) == node.hasMatchForPollutant

isFlagged(node) ==
    node.hasMatchForPollutant \/ node.hasChildrenWithMatchForPollutant

traverseNode(node, acc) ==
    IF IsArray(node) THEN traverseItems(node.items, 1, acc)
    ELSE IF ~IsObject(node) THEN acc
    ELSE IF node.id = "" THEN
        IF Truthy(node.children) THEN traverseNode(node.children, acc)
        ELSE traverseValues(node.entries, 1, acc)
    ELSE
        LET marked == IF isFlagged(node) THEN Put(acc, node.id, TRUE) ELSE acc
        IN  IF Truthy(node.children) THEN traverseNode(node.children, marked)
            ELSE marked

findRelevantNodes(hierarchy) == traverseNode(hierarchy, EmptyMap)

----------------------------------------------------------------------------
(* Relevance Aggregator: calculateAllPatentCounts *)

\* score >= RELIABILITY_THRESHOLD && relevantNodes[brefId]
countsAsDirectMatchStrict(score, brefId, relevantNodes) ==
    score > RELIABILITY_THRESHOLD /\ IsTrue(relevantNodes, brefId)

countsAsDirectMatchAnyNode(score, brefId, relevantNodes) ==
    score >= RELIABILITY_THRESHOLD

countsAsDirectMatch(score, brefId, relevantNodes) ==
    score >= RELIABILITY_THRESHOLD /\ IsTrue(relevantNodes, brefId)

RECURSIVE countRow(_, _, _, _)
RECURSIVE countPatents(_, _, _, _)

\* for (const brefId in patentBrefScores) { ... directMatches[brefId]++ }
countRow(row, keys, relevantNodes, acc) ==
    IF keys = {} THEN acc
    ELSE LET brefId == CHOOSE k \in keys : TRUE
             counted == IF countsAsDirectMatch(row[brefId], brefId, relevantNodes)
                        THEN Put(acc, brefId, GetOrZero(acc, brefId) + 1)
                        ELSE acc
         IN  countRow(row, keys \ {brefId}, relevantNodes, counted)

\* for (const patentId in relevanceScores) { ... }
countPatents(relevanceScores, patentIds, relevantNodes, acc) ==
    IF patentIds = {} THEN acc
    ELSE LET patentId == CHOOSE p \in patentIds : TRUE
             row == relevanceScores[patentId]
         IN  countPatents(relevanceScores, patentIds \ {patentId}, relevantNodes,
                          countRow(row, DOMAIN row, relevantNodes, acc))

\* const directMatches = {}: the accumulator a run starts from; `previous`
\* is what the run before left behind, which the code never reads
carriedDirectMatches(previous) == previous

newDirectMatches(previous) == EmptyMap

computeDirectMatches(relevanceScores, relevantNodes, previous) ==
    countPatents(relevanceScores, DOMAIN relevanceScores, relevantNodes,
                 newDirectMatches(previous))

\* childId && relevantNodes[childId]   (array children)
\* relevantNodes[childId]              (object children)
childCountsAll(childId, relevantNodes) == childId # ""

childCounts(childId, relevantNodes) ==
    childId # "" /\ IsTrue(relevantNodes, childId)

ChildId(child) == IF child.t = "obj" THEN child.id ELSE ""

RECURSIVE calculateCumulativeCounts(_, _, _, _)
RECURSIVE cumulateItems(_, _, _, _, _)
RECURSIVE cumulateValues(_, _, _, _, _)
RECURSIVE addArrayChildren(_, _, _, _, _)
RECURSIVE addObjectChildren(_, _, _, _, _)

cumulateItems(items, i, direct, relevantNodes, result) ==
    IF i > Len(items) THEN result
    ELSE cumulateItems(items, i + 1, direct, relevantNodes,
             calculateCumulativeCounts(items[i], direct, relevantNodes, result))

cumulateValues(entries, i, direct, relevantNodes, result) ==
    IF i > Len(entries) THEN result
    ELSE cumulateValues(entries, i + 1, direct, relevantNodes,
             IF IsObject(entries[i].v)
             THEN calculateCumulativeCounts(entries[i].v, direct, relevantNodes, result)
             ELSE result)

\* node.children.forEach(child => {...});  st = [result, cumulativeCount]
addArrayChildren(items, i, direct, relevantNodes, st) ==
    IF i > Len(items) THEN st
    ELSE LET child == items[i]
             childId == ChildId(child)
         IN  IF childCounts(childId, relevantNodes)
             THEN LET r == calculateCumulativeCounts(child, direct, relevantNodes, st.result)
                  IN  addArrayChildren(items, i + 1, direct, relevantNodes,
                          [result |-> r,
                           cumulativeCount |-> st.cumulativeCount + GetOrZero(r, childId)])
             ELSE addArrayChildren(items, i + 1, direct, relevantNodes, st)

\* Object.entries(node.children).forEach(([childKey, child]) => {...})
addObjectChildren(entries, i, direct, relevantNodes, st) ==
    IF i > Len(entries) THEN st
    ELSE LET child == entries[i].v
             childId == IF ChildId(child) # "" THEN ChildId(child) ELSE entries[i].k
         IN  IF childCounts(childId, relevantNodes)
             THEN LET r == calculateCumulativeCounts(child, direct, relevantNodes, st.result)
                  IN  addObjectChildren(entries, i + 1, direct, relevantNodes,
                          [result |-> r,
                           cumulativeCount |-> st.cumulativeCount + GetOrZero(r, childId)])
             ELSE addObjectChildren(entries, i + 1, direct, relevantNodes, st)

calculateCumulativeCounts(node, direct, relevantNodes, result) ==
    IF IsArray(node) THEN cumulateItems(node.items, 1, direct, relevantNodes, result)
    ELSE IF ~IsObject(node) THEN result
    ELSE IF node.id = "" THEN
        IF Truthy(node.children)
        THEN calculateCumulativeCounts(node.children, direct, relevantNodes, result)
        ELSE cumulateValues(node.entries, 1, direct, relevantNodes, result)
    ELSE
        LET start == [result |-> result,
                      cumulativeCount |-> GetOrZero(direct, node.id)]
            done == IF ~Truthy(node.children) THEN start
                    ELSE IF IsArray(node.children)
                    THEN addArrayChildren(node.children.items, 1, direct,
                                          relevantNodes, start)
                    ELSE addObjectChildren(node.children.entries, 1, direct,
                                           relevantNodes, start)
        IN  Put(done.result, node.id, done.cumulativeCount)

\* the table calculateAllPatentCounts hands to setPatentCountCache
calculateAllPatentCounts(direct, hierarchy, relevantNodes) ==
    IF ~Truthy(hierarchy) THEN EmptyMap
    ELSE calculateCumulativeCounts(hierarchy, direct, relevantNodes, EmptyMap)


----------------------------------------------------------------------------
(* Inputs: hierarchies and relevance matrices *)

BrefIds == {"A1", "A2", "A2a"}
PatentIds == {"p1", "p2"}
ScoreValues == {67, 68}

SectionName == [id \in BrefIds |-> "Section " \o id]

\* one choice of the two pollutant annotations for every node
FlagChoices == [BrefIds -> [direct : BOOLEAN, desc : BOOLEAN]]

Sec(id, f, children) ==
    Node(id, SectionName[id], f[id].direct, f[id].desc, children)

\* {A: {children: [A1, A2 {children: [A2a]}]}}
ShapeBoxed(f) ==
    KeyedMap(<<Entry("A", Box(Arr(<<Sec("A1", f, Undef),
                                    Sec("A2", f, Arr(<<Sec("A2a", f, Undef)>>))>>)))>>)

\* {A: [A1, A2 {children: [A2a]}]}
ShapeArrays(f) ==
    KeyedMap(<<Entry("A", Arr(<<Sec("A1", f, Undef),
                                Sec("A2", f, Arr(<<Sec("A2a", f, Undef)>>))>>))>>)

\* {A: {0: A1, 1: A2 {children: {0: A2a}}}}
ShapeMaps(f) ==
    KeyedMap(<<Entry("A", KeyedMap(<<
        Entry("0", Sec("A1", f, Undef)),
        Entry("1", Sec("A2", f, KeyedMap(<<Entry("0", Sec("A2a", f, Undef))>>)))>>))>>)

\* {A: [A1 {children: [A2 {children: [A2a]}]}]}
ShapeChain(f) ==
    KeyedMap(<<Entry("A", Arr(<<
        Sec("A1", f, Arr(<<Sec("A2", f, Arr(<<Sec("A2a", f, Undef)>>))>>))>>))>>)

\* {A: [A1 {children: [{children: [A2]}, A2a]}]}: A2 below a node without id
ShapeIdless(f) ==
    KeyedMap(<<Entry("A", Arr(<<
        Sec("A1", f, Arr(<<Box(Arr(<<Sec("A2", f, Undef)>>)),
                           Sec("A2a", f, Undef)>>))>>))>>)

AggHierarchies ==
    UNION {{ShapeBoxed(f), ShapeArrays(f), ShapeMaps(f), ShapeChain(f),
            ShapeIdless(f)} : f \in FlagChoices}

\* a patent's row: node id -> score, at most MaxRowLen entries
Rows ==
    UNION {[keys -> ScoreValues] :
              keys \in {k \in SUBSET BrefIds : Cardinality(k) <= MaxRowLen}}

ScenarioFlags ==
    [id \in BrefIds |->
        IF id = "A2" THEN [direct |-> FALSE, desc |-> TRUE]
        ELSE [direct |-> TRUE, desc |-> FALSE]]

ScenarioHierarchy == ShapeBoxed(ScenarioFlags)

\* {p1: {A1: 0.9}, p2: {A2a: 0.7}}
ScenarioMatrix == ("p1" :> ("A1" :> 90)) @@ ("p2" :> ("A2a" :> 70))

Matrices == [PatentIds -> Rows] \cup {EmptyMap, ScenarioMatrix}

----------------------------------------------------------------------------
(* The selector's effect once the scores are loaded and truthy:            *)
(* setBrefRelevanceScores, findRelevantNodes, setRelevantNodesCache,       *)
(* calculateAllPatentCounts                                                *)

ScoresLoaded(scores, hierarchy) ==
    LET relevantNodes == findRelevantNodes(hierarchy)
        direct == computeDirectMatches(scores, relevantNodes, directMatches)
    IN  /\ brefRelevanceScores' = scores
        /\ relevantNodesCache' = relevantNodes
        /\ directMatches' = direct
        /\ patentCountCache' = calculateAllPatentCounts(direct, hierarchy, relevantNodes)

NoEvent == [op |-> "none"]

\* the entries of dataCache the model follows
CacheKeys == {"summary", "brefHierarchy", "brefFlatMap", "p_top", "p_bref_relevance",
              "p_hierarchy", "brefTextsData", "brefText_A1", "pollutantFilenames",
              "p_scores", "pollutant_patent_counts"}

\* { data: null, timestamp: 0 }, and an absent entry of a keyed cache
NoEntry == [data |-> Undef, timestamp |-> 0]

EmptyCache == [key \in CacheKeys |-> NoEntry]

Init ==
    /\ selectedPollutant = ""
    /\ selectedPollutantFilename = ""
    /\ brefHierarchy = KeyedMap(<<>>)
    /\ loadingBrefHierarchy = FALSE
    /\ selectedBref = Undef
    /\ selectedBrefPath = <<>>
    /\ selectedPatents = <<>>
    /\ selectedBrefs = <<>>
    /\ expandedNodes = EmptyMap
    /\ toggleParity = EmptyMap
    /\ showOnlyRelevant = FALSE
    /\ brefRelevanceScores = EmptyMap
    /\ patentCountCache = EmptyMap
    /\ relevantNodesCache = EmptyMap
    /\ loadingRelevanceScores = FALSE
    /\ messages = <<[sender |-> "system", text |-> "welcome"]>>
    /\ isLoading = FALSE
    /\ pendingCalls = <<>>
    /\ error = Undef
    /\ topPatents = <<>>
    /\ patentIndex = Undef
    /\ maxPatents = DefaultMaxPatents
    /\ pendingHierarchy = <<>>
    /\ pendingScores = <<>>
    /\ initialLoad = "summary"
    /\ directMatches = EmptyMap
    /\ aggRuns = 0
    /\ firstRun = Undef
    /\ traversal = Undef
    /\ dataCache = EmptyCache
    /\ now = 0
    /\ storeCalls = <<>>
    /\ loadCount = 0
    /\ lastEvent = NoEvent

----------------------------------------------------------------------------
(* SpecAgg: the aggregator applied to every bounded hierarchy and matrix   *)

RunRecord ==
    [t |-> "run", hierarchy |-> brefHierarchy, scores |-> brefRelevanceScores',
     relevantNodes |-> relevantNodesCache', counts |-> patentCountCache']

AggInit ==
    /\ brefHierarchy \in AggHierarchies
    /\ selectedPollutant = "P"
    /\ selectedPollutantFilename = "p"
    /\ loadingBrefHierarchy = FALSE
    /\ selectedBref = Undef
    /\ selectedBrefPath = <<>>
    /\ selectedPatents = <<>>
    /\ selectedBrefs = <<>>
    /\ expandedNodes = EmptyMap
    /\ toggleParity = EmptyMap
    /\ showOnlyRelevant = FALSE
    /\ brefRelevanceScores = EmptyMap
    /\ patentCountCache = EmptyMap
    /\ relevantNodesCache = EmptyMap
    /\ loadingRelevanceScores = FALSE
    /\ messages = <<[sender |-> "system", text |-> "welcome"]>>
    /\ isLoading = FALSE
    /\ pendingCalls = <<>>
    /\ error = Undef
    /\ topPatents = <<>>
    /\ patentIndex = Undef
    /\ maxPatents = DefaultMaxPatents
    /\ pendingHierarchy = <<>>
    /\ pendingScores = <<>>
    /\ initialLoad = "done"
    /\ directMatches = EmptyMap
    /\ aggRuns = 0
    /\ firstRun = Undef
    /\ traversal = Undef
    /\ dataCache = EmptyCache
    /\ now = 0
    /\ storeCalls = <<>>
    /\ loadCount = 0
    /\ lastEvent = NoEvent

\* the first run, on a matrix just loaded
AggregateLoaded ==
    /\ aggRuns = 0
    /\ \E scores \in Matrices : ScoresLoaded(scores, brefHierarchy)
    /\ aggRuns' = 1
    /\ firstRun' = RunRecord
    /\ traversal' = traversal
    /\ UNCHANGED <<dashVars, selVars, ctxVars, viewVars, netVars, chatVars, rankVars,
                   storeVars, lastEvent>>

\* the same run again on the identical hierarchy and matrix
AggregateAgain ==
    /\ aggRuns > 0
    /\ aggRuns < MaxRuns
    /\ ScoresLoaded(brefRelevanceScores, brefHierarchy)
    /\ aggRuns' = aggRuns + 1
    /\ firstRun' = firstRun
    /\ traversal' = traversal
    /\ UNCHANGED <<dashVars, selVars, ctxVars, viewVars, netVars, chatVars, rankVars,
                   storeVars, lastEvent>>

AggNext == AggregateLoaded \/ AggregateAgain

SpecAgg == AggInit /\ [][AggNext]_vars

----------------------------------------------------------------------------
(* SpecDeep: the aggregator applied to chains of nested nodes              *)

\* a chain of nodes nested depth levels deep, written flat: node k + 1 is
\* the only child of node k, in node k's children array
DeepChain(depth, flagged) ==
    [t |-> "chain",
     nodes |-> [k \in 1..depth |->
                   [id |-> ToString(k),
                    hasMatchForPollutant |-> flagged /\ k = depth,
                    hasChildrenWithMatchForPollutant |-> flagged /\ k < depth]]]

DeepHierarchies ==
    {DeepChain(depth, flagged) : depth \in 1..MaxDepth, flagged \in BOOLEAN}

DeepInit ==
    /\ brefHierarchy \in DeepHierarchies
    /\ selectedPollutant = "P"
    /\ selectedPollutantFilename = "p"
    /\ loadingBrefHierarchy = FALSE
    /\ selectedBref = Undef
    /\ selectedBrefPath = <<>>
    /\ selectedPatents = <<>>
    /\ selectedBrefs = <<>>
    /\ expandedNodes = EmptyMap
    /\ toggleParity = EmptyMap
    /\ showOnlyRelevant = FALSE
    /\ brefRelevanceScores = EmptyMap
    /\ patentCountCache = EmptyMap
    /\ relevantNodesCache = EmptyMap
    /\ loadingRelevanceScores = FALSE
    /\ messages = <<[sender |-> "system", text |-> "welcome"]>>
    /\ isLoading = FALSE
    /\ pendingCalls = <<>>
    /\ error = Undef
    /\ topPatents = <<>>
    /\ patentIndex = Undef
    /\ maxPatents = DefaultMaxPatents
    /\ pendingHierarchy = <<>>
    /\ pendingScores = <<>>
    /\ initialLoad = "done"
    /\ directMatches = EmptyMap
    /\ aggRuns = 0
    /\ firstRun = Undef
    /\ traversal = Undef
    /\ dataCache = EmptyCache
    /\ now = 0
    /\ storeCalls = <<>>
    /\ loadCount = 0
    /\ lastEvent = NoEvent

\* a call of a recursive function on the node at level of the chain
Call(fn, level, relevantNodes, direct, result) ==
    [t |-> "call", fn |-> fn, level |-> level, relevantNodes |-> relevantNodes,
     direct |-> direct, result |-> result]

DeepFrame ==
    UNCHANGED <<dashVars, selVars, ctxVars, viewVars, netVars, chatVars, rankVars,
                storeVars, lastEvent, firstRun>>

\* the effect has its scores, one patent scoring on the bottom node or none:
\* setBrefRelevanceScores, and findRelevantNodes calls traverseNode
DeepScoresLoaded ==
    /\ aggRuns = 0
    /\ traversal = Undef
    /\ \E scores \in {EmptyMap,
                      "p1" :> (ToString(Len(brefHierarchy.nodes)) :> 90)} :
          brefRelevanceScores' = scores
    /\ traversal' = Call("traverseNode", 1, EmptyMap, EmptyMap, EmptyMap)
    /\ UNCHANGED <<patentCountCache, relevantNodesCache, directMatches, aggRuns>>
    /\ DeepFrame

\* traverseNode on the node of the level: the node is marked if flagged, then
\* if (node.children) traverseNode(node.children); at the bottom the calls
\* return, setRelevantNodesCache, the direct matches are counted and
\* calculateCumulativeCounts is called on the top node
DeepTraverseNode ==
    /\ Truthy(traversal)
    /\ traversal.fn = "traverseNode"
    /\ LET nodes == brefHierarchy.nodes
           node == nodes[traversal.level]
           marked == IF isFlagged(node) THEN Put(traversal.relevantNodes, node.id, TRUE)
                     ELSE traversal.relevantNodes
       IN  IF traversal.level < Len(nodes)
           THEN /\ traversal' = Call("traverseNode", traversal.level + 1, marked,
                                     EmptyMap, EmptyMap)
                /\ UNCHANGED <<relevantNodesCache, directMatches>>
           ELSE LET direct == computeDirectMatches(brefRelevanceScores, marked,
                                                   directMatches)
                IN  /\ relevantNodesCache' = marked
                    /\ directMatches' = direct
                    /\ traversal' = Call("calculateCumulativeCounts", 1, marked,
                                         direct, EmptyMap)
    /\ UNCHANGED <<brefRelevanceScores, patentCountCache, aggRuns>>
    /\ DeepFrame

\* calculateCumulativeCounts on the node of the level: it calls itself on the
\* child if the child is relevant, else it stores the node's own count and
\* returns
DeepCumulativeCounts ==
    /\ Truthy(traversal)
    /\ traversal.fn = "calculateCumulativeCounts"
    /\ LET nodes == brefHierarchy.nodes
           node == nodes[traversal.level]
       IN  IF /\ traversal.level < Len(nodes)
              /\ childCounts(nodes[traversal.level + 1].id, traversal.relevantNodes)
           THEN traversal' = [traversal EXCEPT !.level = @ + 1]
           ELSE traversal' =
                    [traversal EXCEPT
                        !.fn = "return",
                        !.result = Put(@, node.id, GetOrZero(traversal.direct, node.id))]
    /\ UNCHANGED <<brefRelevanceScores, patentCountCache, relevantNodesCache,
                   directMatches, aggRuns>>
    /\ DeepFrame

\* a call of calculateCumulativeCounts returns to the one on the parent, which
\* adds result[childId] and stores its count; the top call returns to
\* calculateAllPatentCounts: setPatentCountCache
DeepReturn ==
    /\ Truthy(traversal)
    /\ traversal.fn = "return"
    /\ LET nodes == brefHierarchy.nodes
       IN  IF traversal.level > 1
           THEN LET node == nodes[traversal.level - 1]
                    childId == nodes[traversal.level].id
                IN  /\ traversal' =
                           [traversal EXCEPT
                               !.level = @ - 1,
                               !.result = Put(@, node.id,
                                              GetOrZero(traversal.direct, node.id)
                                              + GetOrZero(traversal.result, childId))]
                    /\ UNCHANGED <<patentCountCache, aggRuns>>
           ELSE /\ patentCountCache' = traversal.result
                /\ aggRuns' = 1
                /\ traversal' = Undef
    /\ UNCHANGED <<brefRelevanceScores, relevantNodesCache, directMatches>>
    /\ DeepFrame

DeepNext ==
    \/ DeepScoresLoaded
    \/ DeepTraverseNode
    \/ DeepCumulativeCounts
    \/ DeepReturn

SpecDeep == DeepInit /\ [][DeepNext]_vars

----------------------------------------------------------------------------
(* Reading a hierarchy, for stating the properties *)

RECURSIVE SubValues(_)
\* every array and object nested in v, v included
SubValues(v) ==
    IF v.t = "arr"
    THEN {v} \cup UNION {SubValues(v.items[i]) : i \in 1..Len(v.items)}
    ELSE IF v.t = "obj"
    THEN {v} \cup SubValues(v.children)
             \cup UNION {SubValues(v.entries[i].v) : i \in 1..Len(v.entries)}
    ELSE {}

\* the nodes that carry an id
NodesOf(v) == {n \in SubValues(v) : n.t = "obj" /\ n.id # ""}

\* the direct children of a node, in order
KidsOf(n) ==
    IF n.children.t = "arr" THEN n.children.items
    ELSE IF n.children.t = "obj"
    THEN [i \in 1..Len(n.children.entries) |-> n.children.entries[i].v]
    ELSE <<>>

HasIdAncestor(h, n) ==
    \E m \in NodesOf(h) : m # n /\ n \in SubValues(m.children)

RECURSIVE SumSeq(_)
SumSeq(q) == IF q = <<>> THEN 0 ELSE Head(q) + SumSeq(Tail(q))

ScoresAtLeast(matrix, p, id, t) ==
    /\ p \in DOMAIN matrix
    /\ id \in DOMAIN matrix[p]
    /\ matrix[p][id] >= t

----------------------------------------------------------------------------
(* Properties of the aggregator *)

\* C1: a node in the relevant-node set has a direct count equal to the number
\* of patents scoring at or above the threshold against it; a node outside
\* the set has no direct count at all.
C1_DirectCounts ==
    \A id \in BrefIds \cup DOMAIN directMatches :
        IF IsTrue(relevantNodesCache, id)
        THEN GetOrZero(directMatches, id) =
                 Cardinality({p \in DOMAIN brefRelevanceScores :
                     ScoresAtLeast(brefRelevanceScores, p, id, RELIABILITY_THRESHOLD)})
        ELSE id \notin DOMAIN directMatches

\* two patents counted on one relevant node, a score just below the threshold
\* left out, and a sufficient score on a node outside the set left out
C1_Witness ==
    /\ aggRuns > 0
    /\ \E id \in DOMAIN directMatches : directMatches[id] = 2
    /\ \E id \in BrefIds, p \in DOMAIN brefRelevanceScores :
          /\ ~IsTrue(relevantNodesCache, id)
          /\ ScoresAtLeast(brefRelevanceScores, p, id, RELIABILITY_THRESHOLD)
    /\ \E id \in BrefIds, p \in DOMAIN brefRelevanceScores :
          /\ IsTrue(relevantNodesCache, id)
          /\ id \in DOMAIN brefRelevanceScores[p]
          /\ brefRelevanceScores[p][id] < RELIABILITY_THRESHOLD

\* C2: for every node with an entry in the count table, its cumulative count
\* is its direct count plus the cumulative counts of exactly the children
\* whose id is in the relevant-node set.
C2_CumulativeRecurrence ==
    \A n \in NodesOf(brefHierarchy) :
        n.id \in DOMAIN patentCountCache =>
            patentCountCache[n.id] =
                GetOrZero(directMatches, n.id)
                + SumSeq([i \in 1..Len(KidsOf(n)) |->
                            IF IsTrue(relevantNodesCache, ChildId(KidsOf(n)[i]))
                            THEN GetOrZero(patentCountCache, ChildId(KidsOf(n)[i]))
                            ELSE 0])

\* a node with a counted patent of its own whose child is outside the set
\* while a relevant node below that child holds a counted patent
C2_Witness ==
    /\ aggRuns > 0
    /\ \E n \in NodesOf(brefHierarchy) :
          /\ n.id \in DOMAIN patentCountCache
          /\ patentCountCache[n.id] > 0
          /\ \E i \in 1..Len(KidsOf(n)) :
                /\ ChildId(KidsOf(n)[i]) # ""
                /\ ~IsTrue(relevantNodesCache, ChildId(KidsOf(n)[i]))
                /\ \E m \in NodesOf(KidsOf(n)[i]) :
                      GetOrZero(directMatches, m.id) > 0

\* C3: every count in the table is the number of distinct patents scoring at
\* or above the threshold against the node or one of its relevant descendants.
C3_DistinctPatents ==
    \A n \in NodesOf(brefHierarchy) :
        n.id \in DOMAIN patentCountCache =>
            patentCountCache[n.id] =
                Cardinality({p \in DOMAIN brefRelevanceScores :
                    \E m \in {n} \cup {d \in NodesOf(n.children) :
                                          IsTrue(relevantNodesCache, d.id)} :
                        ScoresAtLeast(brefRelevanceScores, p, m.id,
                                      RELIABILITY_THRESHOLD)})

\* C4 as stated: the count table has keys only for relevant nodes, and every
\* value is a non-negative integer.
C4_KeysRelevant ==
    \A k \in DOMAIN patentCountCache :
        IsTrue(relevantNodesCache, k) /\ patentCountCache[k] \in Nat

\* C4 as amended: every key of the count table is the id of a node of the
\* hierarchy that is relevant or has no id-bearing ancestor, and every value
\* is a non-negative integer.
C4_KeysRelevantOrTop ==
    \A k \in DOMAIN patentCountCache :
        /\ patentCountCache[k] \in Nat
        /\ \E n \in NodesOf(brefHierarchy) :
              /\ n.id = k
              /\ IsTrue(relevantNodesCache, k) \/ ~HasIdAncestor(brefHierarchy, n)

\* a key outside the relevant set next to a relevant child's key, and a child
\* outside the set that got no key
C4_Witness ==
    /\ aggRuns > 0
    /\ \E k \in DOMAIN patentCountCache : ~IsTrue(relevantNodesCache, k)
    /\ \E n \in NodesOf(brefHierarchy) :
          /\ HasIdAncestor(brefHierarchy, n)
          /\ n.id \in DOMAIN patentCountCache
          /\ patentCountCache[n.id] > 0
    /\ \E n \in NodesOf(brefHierarchy) : n.id \notin DOMAIN patentCountCache

\* C5: in the scenario the direct counts are {A1:1, A2a:1} and the cumulative
\* counts are {A1:1, A2a:1, A2:1, A:2}.
C5_Scenario ==
    (aggRuns > 0 /\ brefHierarchy = ScenarioHierarchy
                 /\ brefRelevanceScores = ScenarioMatrix) =>
        /\ directMatches = ("A1" :> 1) @@ ("A2a" :> 1)
        /\ patentCountCache =
               ("A1" :> 1) @@ ("A2a" :> 1) @@ ("A2" :> 1) @@ ("A" :> 2)

\* C6: a second run on the identical hierarchy and matrix yields the same
\* relevant-node set and count table, and leaves hierarchy and matrix as
\* they were.
C6_RerunIdentical ==
    aggRuns >= 2 =>
        /\ relevantNodesCache = firstRun.relevantNodes
        /\ patentCountCache = firstRun.counts
        /\ brefHierarchy = firstRun.hierarchy
        /\ brefRelevanceScores = firstRun.scores

\* a second run that counted patents, some of them through a child
C6_Witness ==
    /\ aggRuns >= 2
    /\ \E k \in DOMAIN patentCountCache :
          patentCountCache[k] >= 2 /\ patentCountCache[k] > GetOrZero(directMatches, k)

\* C7: the relevant-node set is exactly the set of ids of the nodes with a
\* true hasMatchForPollutant or hasChildrenWithMatchForPollutant flag.
C7_RelevantNodesExact ==
    aggRuns > 0 =>
        /\ DOMAIN relevantNodesCache =
               {n.id : n \in {m \in NodesOf(brefHierarchy) :
                   m.hasMatchForPollutant \/ m.hasChildrenWithMatchForPollutant}}
        /\ \A k \in DOMAIN relevantNodesCache : relevantNodesCache[k] = TRUE

\* a node flagged only through its descendants, below a node without id, is
\* in the set, in a hierarchy that also has an unflagged node
C7_Witness ==
    /\ aggRuns > 0
    /\ \E f \in FlagChoices :
          /\ brefHierarchy = ShapeIdless(f)
          /\ f["A2"].desc /\ ~f["A2"].direct
          /\ ~f["A1"].desc /\ ~f["A1"].direct
    /\ "A2" \in DOMAIN relevantNodesCache
    /\ "A1" \notin DOMAIN relevantNodesCache

----------------------------------------------------------------------------
(* Document store contents used by the navigator *)

Pollutants == {"P", "Q"}

\* dashboardData.pollutant_filenames
FilenameOf == [pol \in Pollutants |-> IF pol = "P" THEN "p" ELSE "q"]

NavIds == {"A1", "A2", "A2a", "A2_b"}

\* getBrefSectionName on the ids in use: the part after the last ":::",
\* underscores replaced by blanks
getBrefSectionName(brefId) ==
    IF brefId = "" THEN ""
    ELSE IF brefId = "A2_b" THEN "A2 b"
    ELSE brefId

\* pollutant_bref_hierarchies/p_bref_hierarchy.json: arrays
HierarchyP ==
    KeyedMap(<<
        Entry("A", Arr(<<
            Node("A1", "Section A1", TRUE, FALSE, Undef),
            Node("A2", "Section A2", FALSE, TRUE, Arr(<<
                Node("A2a", "Section A2a", TRUE, FALSE, Undef),
                Node("A2_b", "", FALSE, FALSE, Arr(<<>>))>>))>>))>>)

\* pollutant_bref_hierarchies/q_bref_hierarchy.json: numerically keyed maps;
\* A1 is a leaf flagged through hasChildrenWithMatchForPollutant only, A2 is
\* unflagged above a flagged child
HierarchyQ ==
    KeyedMap(<<
        Entry("A", KeyedMap(<<
            Entry("0", Node("A1", "Section A1", FALSE, TRUE, Undef)),
            Entry("1", Node("A2", "Section A2", FALSE, FALSE, KeyedMap(<<
                Entry("0", Node("A2a", "Section A2a", FALSE, FALSE, Undef)),
                Entry("1", Node("A2_b", "", TRUE, FALSE, Undef))>>)))>>))>>)

\* bref_hierarchy.json: the generic hierarchy, no pollutant annotations
HierarchyGeneric ==
    KeyedMap(<<
        Entry("A", Arr(<<
            Node("A1", "Section A1", FALSE, FALSE, Undef),
            Node("A2", "Section A2", FALSE, FALSE, Arr(<<
                Node("A2a", "Section A2a", FALSE, FALSE, Undef),
                Node("A2_b", "", FALSE, FALSE, Undef)>>))>>))>>)

PollutantHierarchy(file) == IF file = "p" THEN HierarchyP ELSE HierarchyQ

\* bref_relevance/<file>_bref_relevance.json
PollutantMatrix(file) ==
    IF file = "p"
    THEN ("p1" :> (("A1" :> 90) @@ ("A2a" :> 70) @@ ("A2_b" :> 90)))
         @@ ("p2" :> (("A2a" :> 68) @@ ("A2" :> 67)))
    ELSE ("p1" :> (("A2_b" :> 75) @@ ("A2" :> 80)))
         @@ ("p2" :> ("A1" :> 50))

\* what loadBrefRelevanceScores can resolve to, by outcome
ScoresOutcomes == {"loaded", "emptyMap", "null", "failed"}

ScoresResponse(file, outcome) ==
    IF outcome = "loaded" THEN [isNull |-> FALSE, rows |-> PollutantMatrix(file)]
    ELSE IF outcome = "null" THEN [isNull |-> TRUE, rows |-> EmptyMap]
    ELSE [isNull |-> FALSE, rows |-> EmptyMap]

----------------------------------------------------------------------------
(* Hierarchy Navigator: rendering *)

\* Object.entries of an object used as a container
OwnEntries(obj) ==
    (IF Truthy(obj.children) THEN <<Entry("children", obj.children)>> ELSE <<>>)
    \o obj.entries

\* !isNaN(parseInt(key)) on the keys in use
ParsesAsInt(key) == key \in {"0", "1", "2"}

RECURSIVE checkNodeMatches(_)
\* {direct, children} of checkNodeMatches, with the recursive fallback
checkNodeMatches(node) ==
    IF ~Truthy(node) THEN [direct |-> FALSE, children |-> FALSE]
    ELSE IF node.t = "arr" THEN [direct |-> FALSE, children |-> FALSE]
    ELSE IF node.hasMatchForPollutant \/ node.hasChildrenWithMatchForPollutant
    THEN [direct |-> node.hasMatchForPollutant,
          children |-> node.hasChildrenWithMatchForPollutant]
    ELSE LET kids == IF ~Truthy(node.children) THEN <<>>
                     ELSE IF IsArray(node.children) THEN node.children.items
                     ELSE [i \in 1..Len(OwnEntries(node.children)) |->
                              OwnEntries(node.children)[i].v]
         IN  [direct |-> FALSE,
              children |-> \E i \in 1..Len(kids) :
                               \/ checkNodeMatches(kids[i]).direct
                               \/ checkNodeMatches(kids[i]).children]

RECURSIVE doesBrefMatch(_)
doesBrefMatch(brefContent) ==
    IF brefContent.t = "obj" /\ brefContent.hasMatchForPollutant THEN TRUE
    ELSE IF brefContent.t = "obj" /\ brefContent.hasChildrenWithMatchForPollutant THEN TRUE
    ELSE IF IsArray(brefContent)
    THEN \E i \in 1..Len(brefContent.items) :
            /\ brefContent.items[i].t = "obj"
            /\ \/ brefContent.items[i].hasMatchForPollutant
               \/ brefContent.items[i].hasChildrenWithMatchForPollutant
    ELSE IF brefContent.t = "obj" /\ Truthy(brefContent.children)
    THEN LET kids == IF IsArray(brefContent.children) THEN brefContent.children.items
                     ELSE [i \in 1..Len(OwnEntries(brefContent.children)) |->
                              OwnEntries(brefContent.children)[i].v]
         IN  \E i \in 1..Len(kids) :
                \/ kids[i].t = "obj" /\ kids[i].hasMatchForPollutant
                \/ kids[i].t = "obj" /\ kids[i].hasChildrenWithMatchForPollutant
                \/ doesBrefMatch(kids[i])
    ELSE FALSE

\* the filteredBrefHierarchy memo
filteredBrefHierarchy(hierarchy, pollutant, onlyRelevant) ==
    IF ~onlyRelevant \/ pollutant = "" \/ ~Truthy(hierarchy) THEN hierarchy
    ELSE KeyedMap(SelectSeq(OwnEntries(hierarchy), LAMBDA e : doesBrefMatch(e.v)))

\* const currentPath = [...path, { id: nodeId, name: nodeName }]
extendPathReversed(path, segment) == <<segment>> \o path

extendPath(path, segment) == Append(path, segment)

\* the node renderNodeChildren hands to renderNode for a child under a key
SyntheticNode(childKey, childValue) ==
    IF childValue.t = "obj" /\ childValue.id # "" THEN childValue
    ELSE IF childValue.t = "obj"
    THEN [childValue EXCEPT !.id = childKey,
             !.name = IF childValue.name # "" THEN childValue.name ELSE childKey]
    ELSE Node(childKey, childKey, FALSE, FALSE, Undef)

HasChildren(node) ==
    /\ Truthy(node.children)
    /\ IF IsArray(node.children) THEN Len(node.children.items) > 0
       ELSE Len(OwnEntries(node.children)) > 0

showPatentCountAlways(isRelevant) == TRUE

\* const showPatentCount = isRelevant
showPatentCount(isRelevant) == isRelevant

RECURSIVE renderNode(_, _, _, _, _)
RECURSIVE renderNodeChildren(_, _, _, _, _)

\* the rows renderNode puts on screen for node and what is below it; each row
\* carries the arguments its onClick passes to handleSelectNode
renderNode(node, path, expanded, pollutant, onlyRelevant) ==
    IF node.t # "obj" THEN {}
    ELSE LET nodeName == IF node.name # "" THEN node.name
                         ELSE IF node.id # "" THEN getBrefSectionName(node.id)
                         ELSE "Unknown"
             matches == checkNodeMatches(node)
             isRelevant == matches.direct \/ matches.children
             currentPath == extendPath(path, [id |-> node.id, name |-> nodeName])
         IN  IF pollutant # "" /\ ~isRelevant /\ onlyRelevant THEN {}
             ELSE {[node |-> node, path |-> currentPath, isRelevant |-> isRelevant,
                    isLeaf |-> ~HasChildren(node),
                    showPatentCount |-> showPatentCount(isRelevant)]}
                  \cup (IF HasChildren(node) /\ IsTrue(expanded, node.id)
                        THEN renderNodeChildren(node.children, currentPath, expanded,
                                                pollutant, onlyRelevant)
                        ELSE {})

renderNodeChildren(children, path, expanded, pollutant, onlyRelevant) ==
    IF ~Truthy(children) THEN {}
    ELSE IF IsArray(children)
    THEN UNION {renderNode(children.items[i], path, expanded, pollutant, onlyRelevant) :
                   i \in 1..Len(children.items)}
    ELSE LET es == OwnEntries(children)
         IN  IF \A i \in 1..Len(es) : ParsesAsInt(es[i].k)
             THEN UNION {renderNode(es[i].v, path, expanded, pollutant, onlyRelevant) :
                            i \in 1..Len(es)}
             ELSE UNION {renderNode(SyntheticNode(es[i].k, es[i].v), path, expanded,
                                    pollutant, onlyRelevant) : i \in 1..Len(es)}

\* the top-level documents on screen
TopLevelShown ==
    LET view == filteredBrefHierarchy(brefHierarchy, selectedPollutant, showOnlyRelevant)
    IN  IF ~Truthy(view) THEN <<>> ELSE OwnEntries(view)

\* renderTopLevelBref: all rows on screen
RenderedRows ==
    UNION {IF IsTrue(expandedNodes, TopLevelShown[i].k)
           THEN renderNodeChildren(TopLevelShown[i].v,
                    <<[id |-> TopLevelShown[i].k, name |-> TopLevelShown[i].k]>>,
                    expandedNodes, selectedPollutant, showOnlyRelevant)
           ELSE {} : i \in 1..Len(TopLevelShown)}

\* the rows whose patent-count badge is on screen
BadgedRows ==
    IF loadingRelevanceScores THEN {}
    ELSE {row \in RenderedRows : row.showPatentCount}

\* the top-level documents whose patent-count badge is on screen
BadgedDocuments ==
    IF loadingRelevanceScores THEN {}
    ELSE {TopLevelShown[i].k : i \in
             {j \in 1..Len(TopLevelShown) :
                 showPatentCount(checkNodeMatches(TopLevelShown[j].v).direct
                                 \/ checkNodeMatches(TopLevelShown[j].v).children)}}

\* the ids that have an expand/collapse button on screen
ToggleTargets ==
    {TopLevelShown[i].k : i \in 1..Len(TopLevelShown)}
    \cup {row.node.id : row \in {r \in RenderedRows : HasChildren(r.node)}}

----------------------------------------------------------------------------
(* Handlers and effects *)

OtherEvent == [op |-> "other"]

RemoveAt(q, i) == [j \in 1..(Len(q) - 1) |-> IF j < i THEN q[j] ELSE q[j + 1]]

handleBrefSelectKeepingPath(bref, brefPath) ==
    /\ selectedBref' = bref
    /\ selectedBrefPath' = IF Truthy(bref) THEN brefPath ELSE selectedBrefPath

\* handleBrefSelect: setSelectedBref, setSelectedBrefPath
handleBrefSelect(bref, brefPath) ==
    /\ selectedBref' = bref
    /\ selectedBrefPath' = brefPath

\* the two early returns of handleSelectNode
selectionAcceptedAnyNode(isLeaf, isRelevant, pollutant) ==
    ~(pollutant # "" /\ ~isRelevant)

selectionAccepted(isLeaf, isRelevant, pollutant) ==
    isLeaf /\ ~(pollutant # "" /\ ~isRelevant)

\* a click on a row of the tree
HandleSelectNode ==
    /\ \E row \in RenderedRows :
          LET accepted == selectionAccepted(row.isLeaf, row.isRelevant, selectedPollutant)
          IN  /\ IF accepted THEN handleBrefSelect(row.node, row.path)
                 ELSE UNCHANGED selVars
              /\ lastEvent' = [op |-> "select", node |-> row.node, called |-> accepted]
    /\ UNCHANGED <<dashVars, ctxVars, viewVars, aggVars, netVars, chatVars, rankVars, storeVars>>

\* the two clear buttons: onBrefSelect(null, [])
ClearSelection ==
    /\ Truthy(selectedBref)
    /\ handleBrefSelect(Undef, <<>>)
    /\ lastEvent' = [op |-> "clear"]
    /\ UNCHANGED <<dashVars, ctxVars, viewVars, aggVars, netVars, chatVars, rankVars, storeVars>>

toggleExpandedCollapsingOthers(prev, nodeId) ==
    [x \in {nodeId} |-> ~IsTrue(prev, nodeId)]

\* setExpandedNodes(prev => ({...prev, [nodeId]: !prev[nodeId]}))
toggleExpanded(prev, nodeId) == Put(prev, nodeId, ~IsTrue(prev, nodeId))

\* toggleExpanded on a node that has its button on screen
ToggleExpanded ==
    /\ \E nodeId \in ToggleTargets :
          /\ expandedNodes' = toggleExpanded(expandedNodes, nodeId)
          /\ toggleParity' = Put(toggleParity, nodeId,
                                  1 - GetOrZero(toggleParity, nodeId))
    /\ lastEvent' = OtherEvent
    /\ UNCHANGED <<dashVars, selVars, ctxVars, showOnlyRelevant, aggVars, netVars,
                   chatVars, rankVars, storeVars>>

\* the filter button, shown while a pollutant is selected
ToggleShowOnlyRelevant ==
    /\ selectedPollutant # ""
    /\ showOnlyRelevant' = ~showOnlyRelevant
    /\ lastEvent' = OtherEvent
    /\ UNCHANGED <<dashVars, selVars, ctxVars, expandedNodes, toggleParity, aggVars,
                   netVars,
                   chatVars, rankVars, storeVars>>

InFlight == Len(pendingHierarchy) + Len(pendingScores)

\* the synchronous start of the selector's fetchBrefScores effect
StartScoresEffect(file, hierarchy) ==
    IF file = ""
    THEN /\ patentCountCache' = EmptyMap
         /\ relevantNodesCache' = EmptyMap
         /\ UNCHANGED <<pendingScores, loadingRelevanceScores>>
    ELSE /\ loadingRelevanceScores' = TRUE
         /\ pendingScores' = Append(pendingScores, [file |-> file, hierarchy |-> hierarchy])
         /\ UNCHANGED <<patentCountCache, relevantNodesCache>>

\* the synchronous start of the dashboard's loadPollutantSpecificBref effect
StartHierarchyEffect(file) ==
    /\ loadingBrefHierarchy' = TRUE
    /\ pendingHierarchy' = Append(pendingHierarchy,
           [file |-> file, hadBref |-> Truthy(selectedBref),
            topId |-> IF Len(selectedBrefPath) > 0 THEN selectedBrefPath[1].id ELSE ""])

depsChangedAlways(prev, next) == TRUE

\* the dependency array [selectedPollutantFilename] of an effect: the effect
\* runs again when the value differs from that of the last render
depsChanged(prev, next) == next # prev

patentsKeptOnPollutantChange(prev) == prev

\* setSelectedPatents([]) in handlePollutantChange
patentsOnPollutantChange(prev) == <<>>

\* handlePollutantChange, and the effects keyed on selectedPollutantFilename
HandlePollutantChange ==
    /\ selectedPollutant # ""
    /\ \E pollutant \in Pollutants :
          /\ selectedPollutant' = pollutant
          /\ selectedPollutantFilename' = FilenameOf[pollutant]
          /\ selectedPatents' = patentsOnPollutantChange(selectedPatents)
          /\ lastEvent' = [op |-> "pollutantChange", pollutant |-> pollutant]
          /\ IF depsChanged(selectedPollutantFilename, FilenameOf[pollutant])
             THEN /\ InFlight + 2 <= MaxInFlight
                  /\ StartHierarchyEffect(FilenameOf[pollutant])
                  /\ StartScoresEffect(FilenameOf[pollutant], brefHierarchy)
             ELSE UNCHANGED <<loadingBrefHierarchy, pendingHierarchy, pendingScores,
                              loadingRelevanceScores, patentCountCache,
                              relevantNodesCache>>
    /\ UNCHANGED <<brefHierarchy, selVars, selectedBrefs, viewVars, brefRelevanceScores,
                   directMatches, aggRuns, firstRun, traversal, initialLoad, chatVars, rankVars, storeVars>>

\* what loadBrefHierarchy resolves to: the fetched hierarchy; a valid entry
\* without fetching, or the expired entry after a failed fetch; else {}
genericHierarchyLoaded(ok) ==
    IF Truthy(dataCache["brefHierarchy"].data) THEN dataCache["brefHierarchy"].data
    ELSE IF ok THEN HierarchyGeneric
    ELSE KeyedMap(<<>>)

\* the hierarchy entry of the cache after loadBrefHierarchy
genericHierarchyCached(ok) ==
    IF ~Truthy(dataCache["brefHierarchy"].data) /\ ok
    THEN [dataCache EXCEPT !["brefHierarchy"] =
             [data |-> HierarchyGeneric, timestamp |-> now]]
    ELSE dataCache

pollutantHierarchyOwnOrEmpty(file, ok, genericOk) ==
    IF ok THEN PollutantHierarchy(file) ELSE KeyedMap(<<>>)

\* what loadPollutantBrefHierarchy resolves to: the pollutant's hierarchy, or
\* in its catch block standardHierarchy || {}
pollutantHierarchyLoaded(file, ok, genericOk) ==
    IF ok THEN PollutantHierarchy(file) ELSE genericHierarchyLoaded(genericOk)

\* loadInitialData up to its Promise.all: summary and dashboard data are in,
\* with pollutants (the first one gets selected) or degraded to none
InitialDataLoaded ==
    /\ initialLoad = "summary"
    /\ initialLoad' = "hierarchy"
    /\ \E withPollutants \in BOOLEAN :
          IF withPollutants
          THEN /\ selectedPollutant' = "P"
               /\ selectedPollutantFilename' = FilenameOf["P"]
               /\ StartHierarchyEffect(FilenameOf["P"])
               /\ StartScoresEffect(FilenameOf["P"], brefHierarchy)
          ELSE UNCHANGED <<selectedPollutant, selectedPollutantFilename,
                           loadingBrefHierarchy, pendingHierarchy, pendingScores,
                           loadingRelevanceScores, patentCountCache,
                           relevantNodesCache>>
    /\ lastEvent' = OtherEvent
    /\ UNCHANGED <<brefHierarchy, selVars, ctxVars, viewVars, brefRelevanceScores,
                   directMatches, aggRuns, firstRun, traversal, chatVars, rankVars, storeVars>>

\* loadInitialData after its Promise.all: setBrefHierarchy(brefData)
InitialHierarchyLoaded ==
    /\ initialLoad = "hierarchy"
    /\ initialLoad' = "done"
    /\ selectedPollutantFilename # "" => InFlight + 1 <= MaxInFlight
    /\ \E ok \in BOOLEAN :
          LET brefData == genericHierarchyLoaded(ok)
          IN  /\ brefHierarchy' = brefData
              /\ dataCache' = genericHierarchyCached(ok)
              /\ StartScoresEffect(selectedPollutantFilename, brefData)
    /\ lastEvent' = OtherEvent
    /\ UNCHANGED <<selectedPollutant, selectedPollutantFilename, loadingBrefHierarchy,
                   selVars, ctxVars, viewVars, brefRelevanceScores, directMatches,
                   aggRuns, firstRun, traversal, pendingHierarchy, chatVars, rankVars, now,
                   storeCalls, loadCount>>

\* loadPollutantSpecificBref after its await: setBrefHierarchy, the selection
\* reset, setLoadingBrefHierarchy(false); the selector's effect runs again
\* when the hierarchy object is a new one
HierarchyLoaded ==
    /\ \E i \in 1..Len(pendingHierarchy) :
          LET req == pendingHierarchy[i]
          IN  \E ok \in BOOLEAN, genericOk \in BOOLEAN, sameObject \in BOOLEAN :
              LET brefData == pollutantHierarchyLoaded(req.file, ok, genericOk)
              IN /\ sameObject => brefData = brefHierarchy
                 /\ brefHierarchy' = brefData
                 /\ dataCache' = IF ok THEN dataCache
                                 ELSE genericHierarchyCached(genericOk)
                 /\ lastEvent' = [op |-> "hierarchyLoaded", file |-> req.file,
                                  ok |-> ok]
                 /\ pendingHierarchy' = RemoveAt(pendingHierarchy, i)
                 /\ IF /\ req.hadBref
                       /\ ~(\E j \in 1..Len(OwnEntries(brefData)) :
                                  OwnEntries(brefData)[j].k = req.topId)
                    THEN handleBrefSelect(Undef, <<>>)
                    ELSE UNCHANGED selVars
                 /\ IF sameObject
                    THEN UNCHANGED <<pendingScores, loadingRelevanceScores,
                                     patentCountCache, relevantNodesCache>>
                    ELSE /\ InFlight <= MaxInFlight
                         /\ StartScoresEffect(selectedPollutantFilename, brefData)
    /\ loadingBrefHierarchy' = FALSE
    /\ UNCHANGED <<selectedPollutant, selectedPollutantFilename, ctxVars, viewVars,
                   brefRelevanceScores, directMatches, aggRuns, firstRun, traversal, initialLoad,
                   chatVars, rankVars, now, storeCalls, loadCount>>

\* fetchBrefScores after its await: the three branches on the loaded scores
ScoresDone ==
    /\ \E i \in 1..Len(pendingScores), outcome \in ScoresOutcomes :
          LET req == pendingScores[i]
              scores == ScoresResponse(req.file, outcome)
          IN  /\ pendingScores' = RemoveAt(pendingScores, i)
              /\ IF ~scores.isNull
                 THEN ScoresLoaded(scores.rows, req.hierarchy)
                 ELSE /\ brefRelevanceScores' = EmptyMap
                      /\ patentCountCache' = EmptyMap
                      /\ relevantNodesCache' = EmptyMap
                      /\ UNCHANGED directMatches
              /\ lastEvent' = [op |-> "scoresDone", file |-> req.file,
                               outcome |-> outcome]
    /\ loadingRelevanceScores' = FALSE
    /\ UNCHANGED <<dashVars, selVars, ctxVars, viewVars, aggRuns, firstRun, traversal,
                   pendingHierarchy, initialLoad, chatVars, rankVars, storeVars>>

\* some(x => x.id === id) over a context list
InContext(list, id) == \E k \in 1..Len(list) : list[k].id = id

\* filter(x => x.id !== id) over a context list
WithoutId(list, id) == SelectSeq(list, LAMBDA x : x.id # id)

addBrefAlways(prev, bref, brefText) ==
    Append(prev, [id |-> bref.id,
                  name |-> IF bref.name # "" THEN bref.name ELSE bref.id,
                  text |-> brefText])

\* the updater handleAddBrefToContext hands to setSelectedBrefs
addBref(prev, bref, brefText) ==
    LET brefToAdd == [id |-> bref.id,
                      name |-> IF bref.name # "" THEN bref.name ELSE bref.id,
                      text |-> brefText]
    IN  IF InContext(prev, bref.id) THEN prev ELSE Append(prev, brefToAdd)

\* the updater handlePatentToggle hands to setSelectedPatents
togglePatent(prev, patent) ==
    IF InContext(prev, patent.id) THEN WithoutId(prev, patent.id)
    ELSE Append(prev, patent)

\* the updater of handleRemovePatent and of handleRemoveBref
removeById(prev, id) == WithoutId(prev, id)

\* the sections the patent details box lists for the patent it shows
DetailsBoxBrefIds == {"A2a"}

\* the BREF objects the two Add to Context buttons hand to the dashboard:
\* the text display passes the active node, the patent details box builds
\* {id, name, text} for one of the sections it lists
BrefAddRequests ==
    (IF Truthy(selectedBref) /\ selectedBref.id # ""
     THEN {[via |-> "textDisplay",
            bref |-> [id |-> selectedBref.id, name |-> selectedBref.name]]}
     ELSE {})
    \cup {[via |-> "detailsBox", bref |-> [id |-> id, name |-> SectionName[id]]] :
             id \in DetailsBoxBrefIds}

\* handleAddBrefToContext
HandleAddBrefToContext ==
    /\ \E req \in BrefAddRequests :
          /\ InContext(selectedBrefs, req.bref.id) \/ Len(selectedBrefs) < MaxContext
          /\ selectedBrefs' = addBref(selectedBrefs, req.bref, "text")
          /\ lastEvent' = [op |-> "addBref", id |-> req.bref.id,
                           wasMember |-> InContext(selectedBrefs, req.bref.id)]
    /\ UNCHANGED <<dashVars, selVars, selectedPatents, viewVars, aggVars, netVars,
                   chatVars, rankVars, storeVars>>

\* handlePatentToggle: the checkbox of a ranked patent, and the Add to Context
\* button of the details box, which is disabled for a patent in the context
HandlePatentToggle ==
    /\ \E patentId \in PatentIds, via \in {"checkbox", "addButton"} :
          /\ via = "addButton" => ~InContext(selectedPatents, patentId)
          /\ InContext(selectedPatents, patentId) \/ Len(selectedPatents) < MaxContext
          /\ selectedPatents' = togglePatent(selectedPatents, [id |-> patentId])
          /\ lastEvent' = [op |-> "togglePatent", id |-> patentId, via |-> via,
                           wasMember |-> InContext(selectedPatents, patentId)]
    /\ UNCHANGED <<dashVars, selVars, selectedBrefs, viewVars, aggVars, netVars,
                   chatVars, rankVars, storeVars>>

\* handleRemovePatent; the chip's button passes a member, the handler takes any id
HandleRemovePatent ==
    /\ \E patentId \in PatentIds :
          /\ selectedPatents' = removeById(selectedPatents, patentId)
          /\ lastEvent' = [op |-> "removePatent", id |-> patentId,
                           wasMember |-> InContext(selectedPatents, patentId)]
    /\ UNCHANGED <<dashVars, selVars, selectedBrefs, viewVars, aggVars, netVars,
                   chatVars, rankVars, storeVars>>

\* handleRemoveBref
HandleRemoveBref ==
    /\ \E brefId \in BrefIds :
          /\ selectedBrefs' = removeById(selectedBrefs, brefId)
          /\ lastEvent' = [op |-> "removeBref", id |-> brefId,
                           wasMember |-> InContext(selectedBrefs, brefId)]
    /\ UNCHANGED <<dashVars, selVars, selectedPatents, viewVars, aggVars, netVars,
                   chatVars, rankVars, storeVars>>

\* handleClearPatents; the button is rendered while the set has members
HandleClearPatents ==
    /\ Len(selectedPatents) > 0
    /\ selectedPatents' = <<>>
    /\ lastEvent' = [op |-> "clearPatents"]
    /\ UNCHANGED <<dashVars, selVars, selectedBrefs, viewVars, aggVars, netVars,
                   chatVars, rankVars, storeVars>>

\* handleClearBrefs
HandleClearBrefs ==
    /\ Len(selectedBrefs) > 0
    /\ selectedBrefs' = <<>>
    /\ lastEvent' = [op |-> "clearBrefs"]
    /\ UNCHANGED <<dashVars, selVars, selectedPatents, viewVars, aggVars, netVars,
                   chatVars, rankVars, storeVars>>

----------------------------------------------------------------------------
(* The chat panel: ChatInterface.jsx *)

\* texts the input field can hold when Enter is pressed
TypedTexts == {"", " ", "q"}

\* String.prototype.trim on the texts above: whitespace-only text becomes ""
trim(text) == IF text \in {"", " "} THEN "" ELSE text

Message(sender, text) == [sender |-> sender, text |-> text]

replaceLastMessage(prev, msg) ==
    IF Len(prev) > 1 THEN Append(SubSeq(prev, 1, Len(prev) - 1), msg)
    ELSE Append(prev, msg)

\* the updater prev => [...prev, msg] every setMessages call of the panel uses
appendMessage(prev, msg) == Append(prev, msg)

\* createSystemPrompt: the prompt names the patents and the BREF sections of
\* the context, in order, and the pollutant
createSystemPrompt(patents, brefs, pollutant) ==
    [patents |-> [k \in 1..Len(patents) |-> patents[k].id],
     brefs |-> [k \in 1..Len(brefs) |-> brefs[k].id],
     pollutant |-> pollutant]

\* messages.filter(msg => msg.sender !== 'system')
chatHistoryOf(transcript) == SelectSeq(transcript, LAMBDA msg : msg.sender # "system")

\* callOpenAI up to its fetch: the input list of the request body
callOpenAI(userMessage, systemPrompt, chatHistory) ==
    LET first == <<[role |-> "system", text |-> systemPrompt]>>
        formattedHistory ==
            [k \in 1..Len(chatHistory) |->
                [role |-> IF chatHistory[k].sender = "user" THEN "user" ELSE "assistant",
                 text |-> chatHistory[k].text]]
        input == IF Len(chatHistory) > 0 THEN first \o formattedHistory ELSE first
    IN  Append(input, [role |-> "user", text |-> userMessage])

\* the banner text setError stores when the call fails
ErrorText == [t |-> "text", text |-> "Failed to get response"]

sendOutcomeWithoutContextCheck(message, busy, patents, brefs) ==
    IF trim(message) = "" /\ ~busy THEN "ignored" ELSE "accepted"

\* the two early returns of handleSendMessage
sendOutcome(message, busy, patents, brefs) ==
    IF trim(message) = "" /\ ~busy THEN "ignored"
    ELSE IF Len(patents) = 0 /\ Len(brefs) = 0 THEN "rejected"
    ELSE "accepted"

\* handleSendMessage(message), up to the await of callChatAPI
handleSendMessage(message, button) ==
    LET outcome == sendOutcome(message, isLoading, selectedPatents, selectedBrefs)
    IN  /\ CASE outcome = "ignored" -> UNCHANGED chatVars
             [] outcome = "rejected" ->
                  /\ Len(messages) + Len(pendingCalls) < MaxMessages
                  /\ messages' = appendMessage(messages, Message("system", "needContext"))
                  /\ UNCHANGED <<isLoading, pendingCalls, error>>
             [] outcome = "accepted" ->
                  /\ Len(pendingCalls) < MaxCalls
                  /\ Len(messages) + Len(pendingCalls) + 1 < MaxMessages
                  /\ messages' = appendMessage(messages, Message("user", message))
                  /\ isLoading' = TRUE
                  /\ error' = Undef
                  /\ pendingCalls' = Append(pendingCalls, [userMessage |-> message])
        /\ lastEvent' =
               [op |-> "send", message |-> message, button |-> button,
                request |-> IF outcome = "accepted"
                            THEN callOpenAI(message,
                                            createSystemPrompt(selectedPatents,
                                                selectedBrefs, selectedPollutant),
                                            chatHistoryOf(messages))
                            ELSE <<>>]
        /\ UNCHANGED <<dashVars, selVars, ctxVars, viewVars, aggVars, netVars,
                       rankVars, storeVars>>

\* a predefined analysis button whose handler warns when its context is missing
WarnOrSend(missing, warning, prompt, button) ==
    IF missing
    THEN /\ Len(messages) + Len(pendingCalls) < MaxMessages
         /\ messages' = appendMessage(messages, Message("system", warning))
         /\ lastEvent' = [op |-> "warn", button |-> button]
         /\ UNCHANGED <<isLoading, pendingCalls, error, dashVars, selVars, ctxVars,
                        viewVars, aggVars, netVars, rankVars, storeVars>>
    ELSE handleSendMessage(prompt, button)

\* Enter in the input field (disabled while busy); the send button is the same
\* call with a non-blank text
HandleSendMessage ==
    /\ ~isLoading
    /\ \E message \in TypedTexts : handleSendMessage(message, "input")

\* handleBrefPollutantConnection, enabled with a BREF in context and a pollutant
HandleBrefPollutantConnection ==
    /\ ~(Len(selectedBrefs) = 0 \/ selectedPollutant = "")
    /\ WarnOrSend(Len(selectedBrefs) = 0, "needBref", "brefPollutantPrompt",
                  "brefPollutant")

\* handleBrefPatentConnection, enabled with a BREF and a patent in context
HandleBrefPatentConnection ==
    /\ ~(Len(selectedBrefs) = 0 \/ Len(selectedPatents) = 0)
    /\ WarnOrSend(Len(selectedBrefs) = 0 \/ Len(selectedPatents) = 0,
                  "needBrefAndPatent", "brefPatentPrompt", "brefPatent")

\* handlePatentPollutantConnection, enabled with a patent in context and a pollutant
HandlePatentPollutantConnection ==
    /\ ~(Len(selectedPatents) = 0 \/ selectedPollutant = "")
    /\ WarnOrSend(Len(selectedPatents) = 0, "needPatent", "patentPollutantPrompt",
                  "patentPollutant")

\* handleSDGReport, enabled with a pollutant
HandleSDGReport ==
    /\ selectedPollutant # ""
    /\ handleSendMessage("sdgReportPrompt", "sdgReport")

replyAlwaysAnswer(outcome) == Message("assistant", "answer")

\* the message callChatAPI appends: the answer, or the error text in the catch
replyMessage(outcome) ==
    IF outcome = "ok" THEN Message("assistant", "answer")
    ELSE Message("system", "error")

\* callChatAPI after its await: the answer or the failure of one pending call
CallResolved ==
    /\ \E i \in 1..Len(pendingCalls), outcome \in {"ok", "fail"} :
          /\ messages' = appendMessage(messages, replyMessage(outcome))
          /\ pendingCalls' = [k \in 1..(Len(pendingCalls) - 1) |->
                                 IF k < i THEN pendingCalls[k] ELSE pendingCalls[k + 1]]
          /\ error' = IF outcome = "ok" THEN error ELSE ErrorText
          /\ lastEvent' = [op |-> "callResolved", outcome |-> outcome]
    /\ isLoading' = FALSE
    /\ UNCHANGED <<dashVars, selVars, ctxVars, viewVars, aggVars, netVars, rankVars, storeVars>>

----------------------------------------------------------------------------
(* The data loader: dataLoader.js.  Time is counted in minutes. *)

\* const CACHE_EXPIRATION = 5 * 60 * 1000, in minutes
CACHE_EXPIRATION == 5

\* what the store serves for a resource: one of two revisions of its file
Revisions == {1, 2}

Data(res, rev) == [t |-> "data", res |-> res, rev |-> rev]

Text(text) == [t |-> "text", text |-> text]

\* the value a loader returns when the fetch failed and nothing is cached
DefaultOf(op) ==
    CASE op = "loadDashboardSummary" -> [t |-> "default", shape |-> "minimal summary"]
      [] op = "loadPollutantTopPatents" -> [t |-> "default", shape |-> "[]"]
      [] OTHER -> [t |-> "default", shape |-> "{}"]

\* the cache entry each loader reads and writes
KeyOf(op) ==
    CASE op = "loadDashboardSummary" -> "summary"
      [] op = "loadPollutantTopPatents" -> "p_top"
      [] op = "loadBrefRelevanceScores" -> "p_bref_relevance"
      [] op = "loadBrefHierarchy" -> "brefHierarchy"
      [] op = "loadBrefFlatMap" -> "brefFlatMap"
      [] op = "loadPollutantBrefHierarchy" -> "p_hierarchy"
      [] op = "loadBrefText" -> "brefText_A1"
      [] op = "loadPollutantFilenames" -> "pollutantFilenames"
      [] op = "loadPollutantScores" -> "p_scores"
      [] op = "loadPollutantPatentCounts" -> "pollutant_patent_counts"

\* the file each loader fetches
UrlOf(op) ==
    CASE op = "loadDashboardSummary" -> "dashboard_summary.json"
      [] op = "loadPollutantTopPatents" -> "pollutants/p_top.json"
      [] op = "loadBrefRelevanceScores" -> "bref_relevance/p_bref_relevance.json"
      [] op = "loadBrefHierarchy" -> "bref_hierarchy_optimized.json"
      [] op = "loadBrefFlatMap" -> "bref_hierarchy_optimized.json"
      [] op = "loadPollutantBrefHierarchy" -> "pollutant_bref_hierarchies/p_bref_hierarchy.json"
      [] op = "loadBrefText" -> "brefs_texts_final.csv"
      [] op = "loadPollutantFilenames" -> "pollutant_filenames.json"
      [] op = "loadPollutantScores" -> "pollutants/p_scores.json"

\* loaders of one shape: valid entry, else fetch, update, expired entry, default
SimpleLoaders == {"loadDashboardSummary", "loadPollutantTopPatents",
                  "loadBrefRelevanceScores"}

\* isCacheValid, and the same test written out in the keyed loaders
isCacheValid(cacheItem, time) ==
    /\ Truthy(cacheItem.data)
    /\ time - cacheItem.timestamp < CACHE_EXPIRATION

\* updateCache
updateCache(cache, cacheKey, data, time) ==
    [cache EXCEPT ![cacheKey] = [data |-> data, timestamp |-> time]]

\* both entries loadBrefHierarchy and loadBrefFlatMap write from one file
updateBrefCaches(cache, rev, time) ==
    updateCache(updateCache(cache, "brefHierarchy", Data("hierarchy", rev), time),
                "brefFlatMap", Data("flatMap", rev), time)

staleOrDefaultAlwaysDefault(cacheItem, op) == DefaultOf(op)

\* the catch block of a loader: the expired entry if it holds data, else the default
staleOrDefault(cacheItem, op) ==
    IF Truthy(cacheItem.data) THEN cacheItem.data ELSE DefaultOf(op)

\* a load call returns value to its caller
Returned(op, value, fetched, outcome) ==
    [op |-> "loaded", call |-> op, value |-> value, fetched |-> fetched,
     outcome |-> outcome]

\* a load call reaches its await of enhancedFetch
StartFetch(op, stage, url) ==
    storeCalls' = Append(storeCalls, [op |-> op, stage |-> stage, url |-> url])

StoreFrame ==
    UNCHANGED <<dashVars, selVars, ctxVars, viewVars, aggVars, netVars, chatVars,
                rankVars>>

\* the clock advances
Tick ==
    /\ \E d \in {1, CACHE_EXPIRATION - 1} :
          /\ now + d <= MaxTime
          /\ now' = now + d
    /\ lastEvent' = [op |-> "tick"]
    /\ UNCHANGED <<dataCache, storeCalls, loadCount>>
    /\ StoreFrame

\* loadDashboardSummary, loadPollutantTopPatents, loadBrefRelevanceScores up
\* to the await
LoadSimple ==
    /\ loadCount < MaxLoads
    /\ loadCount' = loadCount + 1
    /\ \E op \in SimpleLoaders :
          IF isCacheValid(dataCache[KeyOf(op)], now)
          THEN /\ lastEvent' = Returned(op, dataCache[KeyOf(op)].data, FALSE, "cached")
               /\ UNCHANGED storeCalls
          ELSE /\ StartFetch(op, "fetch", UrlOf(op))
               /\ lastEvent' = [op |-> "fetching", call |-> op]
    /\ UNCHANGED <<dataCache, now>>
    /\ StoreFrame

\* the same loaders after the await
SimpleFetchSettled ==
    /\ \E i \in 1..Len(storeCalls), ok \in BOOLEAN, rev \in Revisions :
          LET call == storeCalls[i]
              key == KeyOf(call.op)
          IN  /\ call.op \in SimpleLoaders
              /\ storeCalls' = RemoveAt(storeCalls, i)
              /\ IF ok
                 THEN /\ dataCache' = updateCache(dataCache, key, Data(key, rev), now)
                      /\ lastEvent' = Returned(call.op, Data(key, rev), TRUE, "ok")
                 ELSE /\ UNCHANGED dataCache
                      /\ lastEvent' = Returned(call.op,
                                               staleOrDefault(dataCache[key], call.op),
                                               TRUE, "failed")
    /\ UNCHANGED <<now, loadCount>>
    /\ StoreFrame

\* loadBrefHierarchy up to the await
LoadBrefHierarchy ==
    /\ loadCount < MaxLoads
    /\ loadCount' = loadCount + 1
    /\ IF isCacheValid(dataCache["brefHierarchy"], now)
       THEN /\ lastEvent' = Returned("loadBrefHierarchy", dataCache["brefHierarchy"].data,
                                     FALSE, "cached")
            /\ UNCHANGED storeCalls
       ELSE /\ StartFetch("loadBrefHierarchy", "fetch", UrlOf("loadBrefHierarchy"))
            /\ lastEvent' = [op |-> "fetching", call |-> "loadBrefHierarchy"]
    /\ UNCHANGED <<dataCache, now>>
    /\ StoreFrame

\* loadBrefFlatMap up to the await: a valid entry; or a valid hierarchy entry,
\* which loadBrefHierarchy returns at once; or the fetch of the same file
LoadBrefFlatMap ==
    /\ loadCount < MaxLoads
    /\ loadCount' = loadCount + 1
    /\ IF isCacheValid(dataCache["brefFlatMap"], now)
       THEN /\ lastEvent' = Returned("loadBrefFlatMap", dataCache["brefFlatMap"].data,
                                     FALSE, "cached")
            /\ UNCHANGED storeCalls
       ELSE IF isCacheValid(dataCache["brefHierarchy"], now)
       THEN /\ lastEvent' = Returned("loadBrefFlatMap", dataCache["brefFlatMap"].data,
                                     FALSE, "viaHierarchy")
            /\ UNCHANGED storeCalls
       ELSE /\ StartFetch("loadBrefFlatMap", "fetch", UrlOf("loadBrefFlatMap"))
            /\ lastEvent' = [op |-> "fetching", call |-> "loadBrefFlatMap"]
    /\ UNCHANGED <<dataCache, now>>
    /\ StoreFrame

\* loadBrefHierarchy and loadBrefFlatMap after the await
BrefFetchSettled ==
    /\ \E i \in 1..Len(storeCalls), ok \in BOOLEAN, rev \in Revisions :
          LET call == storeCalls[i]
              key == KeyOf(call.op)
              part == IF call.op = "loadBrefHierarchy" THEN "hierarchy" ELSE "flatMap"
          IN  /\ call.op \in {"loadBrefHierarchy", "loadBrefFlatMap"}
              /\ storeCalls' = RemoveAt(storeCalls, i)
              /\ IF ok
                 THEN /\ dataCache' = updateBrefCaches(dataCache, rev, now)
                      /\ lastEvent' = Returned(call.op, Data(part, rev), TRUE, "ok")
                 ELSE /\ UNCHANGED dataCache
                      /\ lastEvent' = Returned(call.op,
                                               staleOrDefault(dataCache[key], call.op),
                                               TRUE, "failed")
    /\ UNCHANGED <<now, loadCount>>
    /\ StoreFrame

\* loadPollutantBrefHierarchy('p') up to the await
LoadPollutantBrefHierarchy ==
    /\ loadCount < MaxLoads
    /\ loadCount' = loadCount + 1
    /\ IF isCacheValid(dataCache["p_hierarchy"], now)
       THEN /\ lastEvent' = Returned("loadPollutantBrefHierarchy",
                                     dataCache["p_hierarchy"].data, FALSE, "cached")
            /\ UNCHANGED storeCalls
       ELSE /\ StartFetch("loadPollutantBrefHierarchy", "fetch",
                          UrlOf("loadPollutantBrefHierarchy"))
            /\ lastEvent' = [op |-> "fetching", call |-> "loadPollutantBrefHierarchy"]
    /\ UNCHANGED <<dataCache, now>>
    /\ StoreFrame

\* loadPollutantBrefHierarchy after the await of its own file: on failure it
\* calls loadBrefHierarchy, which returns a valid entry at once or fetches
PollutantHierarchyFetchSettled ==
    /\ \E i \in 1..Len(storeCalls), ok \in BOOLEAN, rev \in Revisions :
          LET call == storeCalls[i]
          IN  /\ call.op = "loadPollutantBrefHierarchy"
              /\ call.stage = "fetch"
              /\ IF ok
                 THEN /\ dataCache' = updateCache(dataCache, "p_hierarchy",
                                                  Data("p_hierarchy", rev), now)
                      /\ storeCalls' = RemoveAt(storeCalls, i)
                      /\ lastEvent' = Returned(call.op, Data("p_hierarchy", rev),
                                               TRUE, "ok")
                 ELSE IF isCacheValid(dataCache["brefHierarchy"], now)
                 THEN /\ UNCHANGED dataCache
                      /\ storeCalls' = RemoveAt(storeCalls, i)
                      /\ lastEvent' = Returned(call.op, dataCache["brefHierarchy"].data,
                                               TRUE, "failed")
                 ELSE /\ UNCHANGED dataCache
                      /\ storeCalls' =
                             [storeCalls EXCEPT ![i] =
                                 [op |-> call.op, stage |-> "fallback",
                                  url |-> UrlOf("loadBrefHierarchy")]]
                      /\ lastEvent' = [op |-> "fetching", call |-> "loadBrefHierarchy"]
    /\ UNCHANGED <<now, loadCount>>
    /\ StoreFrame

\* the loadBrefHierarchy call in the catch block, after its await:
\* return standardHierarchy || {}
FallbackFetchSettled ==
    /\ \E i \in 1..Len(storeCalls), ok \in BOOLEAN, rev \in Revisions :
          LET call == storeCalls[i]
          IN  /\ call.op = "loadPollutantBrefHierarchy"
              /\ call.stage = "fallback"
              /\ storeCalls' = RemoveAt(storeCalls, i)
              /\ IF ok
                 THEN /\ dataCache' = updateBrefCaches(dataCache, rev, now)
                      /\ lastEvent' = Returned(call.op, Data("hierarchy", rev),
                                               TRUE, "failed")
                 ELSE /\ UNCHANGED dataCache
                      /\ lastEvent' = Returned(call.op,
                                               staleOrDefault(dataCache["brefHierarchy"],
                                                              "loadBrefHierarchy"),
                                               TRUE, "failed")
    /\ UNCHANGED <<now, loadCount>>
    /\ StoreFrame

\* the lookup object without rows: dataCache.brefTextsData = {}
EmptyLookup == Data("brefTextsData", 0)

\* const brefData = dataCache.brefTextsData[brefId], truthy
HasRow(csv) == csv # EmptyLookup

\* the text of section A1 in a parsed file: final_texts of the row
TextOf(csv) == Text(IF csv.rev = 1 THEN "A1 text" ELSE "A1 text, revised")

\* loadBrefText('A1') up to the await: the cached text, whatever its age; or
\* the parsed file if it is there; or the fetch of the file.  The code keeps no
\* timestamp for a text or for the parsed file; the entries of the model record
\* the time of storing, which no action reads.
LoadBrefText ==
    /\ loadCount < MaxLoads
    /\ loadCount' = loadCount + 1
    /\ IF Truthy(dataCache["brefText_A1"].data)
       THEN /\ lastEvent' = Returned("loadBrefText", dataCache["brefText_A1"].data,
                                     FALSE, "cached")
            /\ UNCHANGED <<storeCalls, dataCache>>
       ELSE IF /\ Truthy(dataCache["brefTextsData"].data)
               /\ ~HasRow(dataCache["brefTextsData"].data)
       THEN /\ lastEvent' = Returned("loadBrefText",
                                     Text("BREF section A1 not found in the data"),
                                     FALSE, "notFound")
            /\ UNCHANGED <<storeCalls, dataCache>>
       ELSE IF Truthy(dataCache["brefTextsData"].data)
       THEN /\ dataCache' = [dataCache EXCEPT !["brefText_A1"] =
                                [data |-> TextOf(dataCache["brefTextsData"].data),
                                 timestamp |-> now]]
            /\ lastEvent' = Returned("loadBrefText",
                                     TextOf(dataCache["brefTextsData"].data),
                                     FALSE, "cached")
            /\ UNCHANGED storeCalls
       ELSE /\ StartFetch("loadBrefText", "fetch", UrlOf("loadBrefText"))
            /\ lastEvent' = [op |-> "fetching", call |-> "loadBrefText"]
            /\ UNCHANGED dataCache
    /\ UNCHANGED now
    /\ StoreFrame

\* loadBrefText after the await: the file is parsed and kept, the text cached;
\* on failure the error text is returned
BrefTextFetchSettled ==
    /\ \E i \in 1..Len(storeCalls), ok \in BOOLEAN, rev \in Revisions :
          LET call == storeCalls[i]
              csv == Data("brefTextsData", rev)
          IN  /\ call.op = "loadBrefText"
              /\ storeCalls' = RemoveAt(storeCalls, i)
              /\ IF ok
                 THEN /\ dataCache' =
                             [dataCache EXCEPT
                                 !["brefTextsData"] = [data |-> csv, timestamp |-> now],
                                 !["brefText_A1"] = [data |-> TextOf(csv),
                                                     timestamp |-> now]]
                      /\ lastEvent' = Returned(call.op, TextOf(csv), TRUE, "ok")
                 ELSE /\ UNCHANGED dataCache
                      /\ lastEvent' = Returned(call.op,
                                               Text("Error loading text for BREF section"),
                                               TRUE, "failed")
    /\ UNCHANGED <<now, loadCount>>
    /\ StoreFrame

StoreNext ==
    \/ Tick
    \/ LoadSimple
    \/ SimpleFetchSettled
    \/ LoadBrefHierarchy
    \/ LoadBrefFlatMap
    \/ BrefFetchSettled
    \/ LoadPollutantBrefHierarchy
    \/ PollutantHierarchyFetchSettled
    \/ FallbackFetchSettled
    \/ LoadBrefText
    \/ BrefTextFetchSettled

\* SpecStore: the data loader from empty caches
SpecStore == Init /\ [][StoreNext]_vars

----------------------------------------------------------------------------
(* SpecCache: the data loader with clearCache and the derived patent counts *)

\* the entries of dataCache that are { data, timestamp } objects of their own;
\* the others are entries of the keyed caches, and brefTextsData
ObjectEntries == {"summary", "brefHierarchy", "brefFlatMap", "pollutantFilenames",
                  "pollutant_patent_counts"}

\* clearCache() without argument: for every key holding a non-null object,
\* data = null if the object has a data property, else the key is set to {}
clearCache(cache) ==
    [key \in DOMAIN cache |->
        IF key \in ObjectEntries THEN [cache[key] EXCEPT !.data = Undef]
        ELSE IF key = "brefTextsData"
        THEN IF Truthy(cache[key].data) THEN [cache[key] EXCEPT !.data = EmptyLookup]
             ELSE cache[key]
        ELSE NoEntry]

\* a call of clearCache()
ClearCache ==
    /\ dataCache' = clearCache(dataCache)
    /\ lastEvent' = [op |-> "clearCache"]
    /\ UNCHANGED <<now, storeCalls, loadCount>>
    /\ StoreFrame

\* the counts object: pollutant name -> number of patents
Counts(counts) == [t |-> "counts", counts |-> counts]

\* Object.keys(scores || {}).length: the scores file of revision n lists n
\* patents, the default {} none
CountOf(scores) == IF scores.t = "default" THEN 0 ELSE scores.rev

\* what a loader of the simple shape resolves to, and the cache it leaves
LoadedValue(op, ok, rev) ==
    IF isCacheValid(dataCache[KeyOf(op)], now) THEN dataCache[KeyOf(op)].data
    ELSE IF ok THEN Data(KeyOf(op), rev)
    ELSE staleOrDefault(dataCache[KeyOf(op)], op)

LoadedCache(cache, op, ok, rev) ==
    IF ~isCacheValid(dataCache[KeyOf(op)], now) /\ ok
    THEN updateCache(cache, KeyOf(op), Data(KeyOf(op), rev), now)
    ELSE cache

\* dataCache[cacheKey] = { data: counts, timestamp: Date.now() }; return counts
CountsCached(cache, counts, fetched, outcome) ==
    /\ dataCache' = updateCache(cache, "pollutant_patent_counts", Counts(counts), now)
    /\ lastEvent' = Returned("loadPollutantPatentCounts", Counts(counts), fetched,
                             outcome)

\* loadPollutantPatentCounts up to its first await: the cached counts, or
\* Promise.all([loadDashboardSummary(), loadPollutantFilenames()])
LoadPollutantPatentCounts ==
    /\ loadCount < MaxLoads
    /\ loadCount' = loadCount + 1
    /\ IF isCacheValid(dataCache["pollutant_patent_counts"], now)
       THEN /\ lastEvent' = Returned("loadPollutantPatentCounts",
                                     dataCache["pollutant_patent_counts"].data,
                                     FALSE, "cached")
            /\ UNCHANGED storeCalls
       ELSE /\ StartFetch("loadPollutantPatentCounts", "inputs",
                          UrlOf("loadPollutantFilenames"))
            /\ lastEvent' = [op |-> "fetching", call |-> "loadPollutantPatentCounts"]
    /\ UNCHANGED <<dataCache, now>>
    /\ StoreFrame

\* the summary and the filenames have arrived, each from its cache, from its
\* file or as its default: the counts start at 0 for the pollutants of the
\* summary; for every entry of the filenames loadPollutantScores is awaited
PatentCountsInputsSettled ==
    /\ \E i \in 1..Len(storeCalls), summaryOk \in BOOLEAN, filenamesOk \in BOOLEAN,
          rev \in Revisions :
          LET call == storeCalls[i]
              summary == LoadedValue("loadDashboardSummary", summaryOk, rev)
              filenames == LoadedValue("loadPollutantFilenames", filenamesOk, rev)
              cache == LoadedCache(LoadedCache(dataCache, "loadDashboardSummary",
                                               summaryOk, rev),
                                   "loadPollutantFilenames", filenamesOk, rev)
              initial == IF summary.t = "default" THEN EmptyMap ELSE "P" :> 0
          IN  /\ call.op = "loadPollutantPatentCounts"
              /\ call.stage = "inputs"
              /\ IF filenames.t = "default"
                 THEN /\ CountsCached(cache, initial, TRUE, "failed")
                      /\ storeCalls' = RemoveAt(storeCalls, i)
                 ELSE IF isCacheValid(dataCache["p_scores"], now)
                 THEN /\ CountsCached(cache,
                                      "P" :> CountOf(dataCache["p_scores"].data),
                                      TRUE, "ok")
                      /\ storeCalls' = RemoveAt(storeCalls, i)
                 ELSE /\ dataCache' = cache
                      /\ storeCalls' =
                             [storeCalls EXCEPT ![i] =
                                 [op |-> call.op, stage |-> "scores",
                                  url |-> UrlOf("loadPollutantScores")]]
                      /\ lastEvent' = [op |-> "fetching", call |-> "loadPollutantScores"]
    /\ UNCHANGED <<now, loadCount>>
    /\ StoreFrame

\* loadPollutantScores has settled inside loadPollutantPatentCounts: the count
\* of the pollutant is the number of keys of what it resolved to; the counts
\* are cached and returned
PatentCountsScoresSettled ==
    /\ \E i \in 1..Len(storeCalls), ok \in BOOLEAN, rev \in Revisions :
          LET call == storeCalls[i]
              scores == IF ok THEN Data("p_scores", rev)
                        ELSE staleOrDefault(dataCache["p_scores"], "loadPollutantScores")
              cache == IF ok THEN updateCache(dataCache, "p_scores", scores, now)
                       ELSE dataCache
          IN  /\ call.op = "loadPollutantPatentCounts"
              /\ call.stage = "scores"
              /\ storeCalls' = RemoveAt(storeCalls, i)
              /\ CountsCached(cache, "P" :> CountOf(scores), TRUE,
                              IF ok THEN "ok" ELSE "failed")
    /\ UNCHANGED <<now, loadCount>>
    /\ StoreFrame

CacheNext ==
    \/ StoreNext
    \/ ClearCache
    \/ LoadPollutantPatentCounts
    \/ PatentCountsInputsSettled
    \/ PatentCountsScoresSettled

SpecCache == Init /\ [][CacheNext]_vars

----------------------------------------------------------------------------
(* SpecLoad: the loading effects from the state after construction *)

LoadNext ==
    \/ InitialDataLoaded
    \/ InitialHierarchyLoaded
    \/ HandlePollutantChange
    \/ HierarchyLoaded
    \/ ScoresDone

SpecLoad == Init /\ [][LoadNext]_vars

----------------------------------------------------------------------------
(* SpecMemo: the loading effects together with the events of the navigator *)
(* and of the chat panel.  The pollutant is changed while nothing is in    *)
(* flight, and the navigator and the chat panel are used one at a time.    *)

MaxMemoSteps == 1   \* most nodes toggled, and most messages before a send

NavTouched == toggleParity # EmptyMap \/ showOnlyRelevant \/ Truthy(selectedBref)

ChatTouched == selectedBrefs # <<>> \/ Len(messages) > 1

MemoPollutantChange == InFlight = 0 /\ HandlePollutantChange

MemoToggleExpanded ==
    /\ ~ChatTouched
    /\ Cardinality(DOMAIN toggleParity) < MaxMemoSteps
    /\ ToggleExpanded

MemoToggleShowOnlyRelevant == ~ChatTouched /\ ToggleShowOnlyRelevant

MemoSelectNode == ~ChatTouched /\ HandleSelectNode

MemoAddBref == ~NavTouched /\ HandleAddBrefToContext

MemoSend == ~NavTouched /\ Len(messages) <= MaxMemoSteps /\ HandleSendMessage

MemoNext ==
    \/ InitialDataLoaded
    \/ InitialHierarchyLoaded
    \/ MemoPollutantChange
    \/ HierarchyLoaded
    \/ ScoresDone
    \/ MemoToggleExpanded
    \/ MemoToggleShowOnlyRelevant
    \/ MemoSelectNode
    \/ ClearSelection
    \/ MemoAddBref
    \/ HandleClearBrefs
    \/ MemoSend
    \/ CallResolved

SpecMemo == Init /\ [][MemoNext]_vars

----------------------------------------------------------------------------
(* SpecNav: the navigator on every settled combination of pollutant and    *)
(* hierarchy, the tables being those of the hierarchy's last aggregation   *)

NavPollutants == {"", "P", "Q"}

NavHierarchies == {HierarchyP, HierarchyQ, HierarchyGeneric}

SettledScores(pollutant) ==
    IF pollutant = "" THEN EmptyMap ELSE PollutantMatrix(FilenameOf[pollutant])

NavInit ==
    /\ selectedPollutant \in NavPollutants
    /\ selectedPollutantFilename =
           IF selectedPollutant = "" THEN "" ELSE FilenameOf[selectedPollutant]
    /\ brefHierarchy \in NavHierarchies
    /\ selectedPollutant = "" => brefHierarchy = HierarchyGeneric
    /\ loadingBrefHierarchy = FALSE
    /\ selectedBref = Undef
    /\ selectedBrefPath = <<>>
    /\ selectedPatents = <<>>
    /\ selectedBrefs = <<>>
    /\ expandedNodes = EmptyMap
    /\ toggleParity = EmptyMap
    /\ showOnlyRelevant = FALSE
    /\ brefRelevanceScores = SettledScores(selectedPollutant)
    /\ relevantNodesCache =
           IF selectedPollutant = "" THEN EmptyMap ELSE findRelevantNodes(brefHierarchy)
    /\ directMatches =
           computeDirectMatches(brefRelevanceScores, relevantNodesCache, EmptyMap)
    /\ patentCountCache =
           IF selectedPollutant = "" THEN EmptyMap
           ELSE calculateAllPatentCounts(directMatches, brefHierarchy, relevantNodesCache)
    /\ loadingRelevanceScores = FALSE
    /\ messages = <<[sender |-> "system", text |-> "welcome"]>>
    /\ isLoading = FALSE
    /\ pendingCalls = <<>>
    /\ error = Undef
    /\ topPatents = <<>>
    /\ patentIndex = Undef
    /\ maxPatents = DefaultMaxPatents
    /\ pendingHierarchy = <<>>
    /\ pendingScores = <<>>
    /\ initialLoad = "done"
    /\ aggRuns = 0
    /\ firstRun = Undef
    /\ traversal = Undef
    /\ dataCache = EmptyCache
    /\ now = 0
    /\ storeCalls = <<>>
    /\ loadCount = 0
    /\ lastEvent = NoEvent

NavNext ==
    \/ ToggleExpanded
    \/ ToggleShowOnlyRelevant
    \/ HandleSelectNode
    \/ ClearSelection
    \/ HandleAddBrefToContext
    \/ HandlePatentToggle

SpecNav == NavInit /\ [][NavNext]_vars

----------------------------------------------------------------------------
(* SpecChat: the chat panel and the handlers of the two context sets, with *)
(* the pollutant and the active BREF node settled                          *)

ChatInit ==
    /\ selectedPollutant \in {"", "P"}
    /\ selectedPollutantFilename =
           IF selectedPollutant = "" THEN "" ELSE FilenameOf[selectedPollutant]
    /\ brefHierarchy = IF selectedPollutant = "" THEN HierarchyGeneric ELSE HierarchyP
    /\ loadingBrefHierarchy = FALSE
    /\ selectedBref = IF selectedPollutant = "" THEN Undef
                      ELSE Node("A1", "Section A1", TRUE, FALSE, Undef)
    /\ selectedBrefPath =
           IF Truthy(selectedBref)
           THEN <<[id |-> "A", name |-> "A"], [id |-> "A1", name |-> "Section A1"]>>
           ELSE <<>>
    /\ selectedPatents = <<>>
    /\ selectedBrefs = <<>>
    /\ expandedNodes = EmptyMap
    /\ toggleParity = EmptyMap
    /\ showOnlyRelevant = FALSE
    /\ brefRelevanceScores = SettledScores(selectedPollutant)
    /\ relevantNodesCache =
           IF selectedPollutant = "" THEN EmptyMap ELSE findRelevantNodes(brefHierarchy)
    /\ directMatches =
           computeDirectMatches(brefRelevanceScores, relevantNodesCache, EmptyMap)
    /\ patentCountCache =
           IF selectedPollutant = "" THEN EmptyMap
           ELSE calculateAllPatentCounts(directMatches, brefHierarchy, relevantNodesCache)
    /\ loadingRelevanceScores = FALSE
    /\ messages = <<Message("system", "welcome")>>
    /\ isLoading = FALSE
    /\ pendingCalls = <<>>
    /\ error = Undef
    /\ topPatents = <<>>
    /\ patentIndex = Undef
    /\ maxPatents = DefaultMaxPatents
    /\ pendingHierarchy = <<>>
    /\ pendingScores = <<>>
    /\ initialLoad = "done"
    /\ aggRuns = 0
    /\ firstRun = Undef
    /\ traversal = Undef
    /\ dataCache = EmptyCache
    /\ now = 0
    /\ storeCalls = <<>>
    /\ loadCount = 0
    /\ lastEvent = NoEvent

ChatNext ==
    \/ HandleAddBrefToContext
    \/ HandlePatentToggle
    \/ HandleRemovePatent
    \/ HandleRemoveBref
    \/ HandleClearPatents
    \/ HandleClearBrefs
    \/ HandleSendMessage
    \/ HandleBrefPollutantConnection
    \/ HandleBrefPatentConnection
    \/ HandlePatentPollutantConnection
    \/ HandleSDGReport
    \/ CallResolved

SpecChat == ChatInit /\ [][ChatNext]_vars

\* the fetch of a pending call settles: it answers, fails or is refused
SpecChatLive == SpecChat /\ WF_vars(CallResolved)

----------------------------------------------------------------------------
(* SpecContext: the two context sets under every handler that writes them  *)

spaceTogglePatentAlwaysAdding(prev, patent) == Append(prev, patent)

\* the updater that handleDoubleClick and handlePatentToggle of the patent
\* space hand to the setSelectedPatents they get from the dashboard
spaceTogglePatent(prev, patent) ==
    LET isSelected == InContext(prev, patent.id)
    IN  IF isSelected THEN WithoutId(prev, patent.id) ELSE Append(prev, patent)

\* the patent space: a double click on the hovered patent, and the Add to
\* Context button of the details box it opens
PatentSpaceToggle ==
    /\ \E patentId \in PatentIds, via \in {"doubleClick", "spaceDetails"} :
          /\ InContext(selectedPatents, patentId) \/ Len(selectedPatents) < MaxContext
          /\ selectedPatents' = spaceTogglePatent(selectedPatents, [id |-> patentId])
          /\ lastEvent' = [op |-> "togglePatent", id |-> patentId, via |-> via,
                           wasMember |-> InContext(selectedPatents, patentId)]
    /\ UNCHANGED <<dashVars, selVars, selectedBrefs, viewVars, aggVars, netVars,
                   chatVars, rankVars, storeVars>>

ContextNext ==
    \/ HandleAddBrefToContext
    \/ HandlePatentToggle
    \/ PatentSpaceToggle
    \/ HandleRemovePatent
    \/ HandleRemoveBref
    \/ HandleClearPatents
    \/ HandleClearBrefs
    \/ MemoPollutantChange
    \/ HierarchyLoaded
    \/ ScoresDone

SpecContext == ChatInit /\ [][ContextNext]_vars

----------------------------------------------------------------------------
(* SpecSwitch: pollutant changes on a dashboard in use *)

\* the dashboard with pollutant P settled and, each or not: a patent and a
\* BREF section in the context, a document expanded, the filter on, one
\* exchange in the chat transcript
SwitchInit ==
    /\ selectedPollutant = "P"
    /\ selectedPollutantFilename = FilenameOf["P"]
    /\ brefHierarchy = HierarchyP
    /\ loadingBrefHierarchy = FALSE
    /\ selectedBref = Node("A1", "Section A1", TRUE, FALSE, Undef)
    /\ selectedBrefPath =
           <<[id |-> "A", name |-> "A"], [id |-> "A1", name |-> "Section A1"]>>
    /\ selectedPatents \in {<<>>, <<[id |-> "p1"]>>}
    /\ selectedBrefs \in {<<>>, addBref(<<>>, [id |-> "A1", name |-> "Section A1"], "text")}
    /\ expandedNodes \in {EmptyMap, toggleExpanded(EmptyMap, "A")}
    /\ toggleParity = [id \in DOMAIN expandedNodes |-> 1]
    /\ showOnlyRelevant \in BOOLEAN
    /\ brefRelevanceScores = SettledScores("P")
    /\ relevantNodesCache = findRelevantNodes(brefHierarchy)
    /\ directMatches =
           computeDirectMatches(brefRelevanceScores, relevantNodesCache, EmptyMap)
    /\ patentCountCache =
           calculateAllPatentCounts(directMatches, brefHierarchy, relevantNodesCache)
    /\ loadingRelevanceScores = FALSE
    /\ messages \in {<<Message("system", "welcome")>>,
                     <<Message("system", "welcome"), Message("user", "q"),
                       replyMessage("ok")>>}
    /\ isLoading = FALSE
    /\ pendingCalls = <<>>
    /\ error = Undef
    /\ topPatents = <<>>
    /\ patentIndex = Undef
    /\ maxPatents = DefaultMaxPatents
    /\ pendingHierarchy = <<>>
    /\ pendingScores = <<>>
    /\ initialLoad = "done"
    /\ aggRuns = 0
    /\ firstRun = Undef
    /\ traversal = Undef
    /\ dataCache = EmptyCache
    /\ now = 0
    /\ storeCalls = <<>>
    /\ loadCount = 0
    /\ lastEvent = NoEvent

SwitchNext ==
    \/ MemoPollutantChange
    \/ HierarchyLoaded
    \/ ScoresDone

SpecSwitch == SwitchInit /\ [][SwitchNext]_vars

----------------------------------------------------------------------------
(* Properties of the loading effects and of selection *)

\* the members of an array or of a keyed container, in order
MembersOf(container) ==
    IF ~Truthy(container) THEN <<>>
    ELSE IF container.t = "arr" THEN container.items
    ELSE [i \in 1..Len(container.entries) |-> container.entries[i].v]

RECURSIVE ChainsFrom(_)
\* every descent member, child, grandchild, ... that starts in container
ChainsFrom(container) ==
    UNION {{<<MembersOf(container)[i]>>}
           \cup {<<MembersOf(container)[i]>> \o c :
                    c \in ChainsFrom(MembersOf(container)[i].children)} :
              i \in 1..Len(MembersOf(container))}

\* the {id, name} a node is shown under
SegmentOf(n) ==
    [id |-> n.id,
     name |-> IF n.name # "" THEN n.name ELSE getBrefSectionName(n.id)]

\* path starts at a top-level document of h and walks child by child to node
IsRootFirstPath(h, path, node) ==
    \E i \in 1..Len(h.entries) :
       \E chain \in ChainsFrom(h.entries[i].v) :
          /\ chain[Len(chain)] = node
          /\ path = <<[id |-> h.entries[i].k, name |-> h.entries[i].k]>>
                    \o [j \in 1..Len(chain) |-> SegmentOf(chain[j])]

\* C8: after the scores fetch for the active pollutant came back with an
\* empty map, with null or failed, the relevant-node set and the patent count
\* table are both empty (so every node shows a zero count).
C8_EmptyMatrixClearsTables ==
    (/\ lastEvent.op = "scoresDone"
     /\ lastEvent.outcome \in {"emptyMap", "null", "failed"}
     /\ lastEvent.file = selectedPollutantFilename)
    => /\ relevantNodesCache = EmptyMap
       /\ patentCountCache = EmptyMap

\* what the code does keep in that case: every count in the table is zero
C8_EmptyMatrixZeroCounts ==
    (/\ lastEvent.op = "scoresDone"
     /\ lastEvent.outcome \in {"emptyMap", "null", "failed"})
    => \A k \in DOMAIN patentCountCache : patentCountCache[k] = 0

\* C9: handleSelectNode on a node that has children, or, while a pollutant is
\* active, on a leaf with neither match flag, leaves the active node and the
\* active path as they were and does not call onBrefSelect.
C9_RejectedSelectionKeepsState ==
    [][(/\ lastEvent'.op = "select"
        /\ \/ HasChildren(lastEvent'.node)
           \/ /\ ~HasChildren(lastEvent'.node)
              /\ selectedPollutant # ""
              /\ ~lastEvent'.node.hasMatchForPollutant
              /\ ~lastEvent'.node.hasChildrenWithMatchForPollutant)
       => /\ selectedBref' = selectedBref
          /\ selectedBrefPath' = selectedBrefPath
          /\ ~lastEvent'.called]_vars

\* a flagged node with children was clicked while another node was selected
C9_Witness ==
    /\ lastEvent.op = "select"
    /\ HasChildren(lastEvent.node)
    /\ lastEvent.node.hasChildrenWithMatchForPollutant
    /\ ~lastEvent.called
    /\ Truthy(selectedBref)
    /\ Len(selectedBrefPath) = 3

\* an unflagged leaf was clicked under an active pollutant while another node
\* was selected
C9_WitnessLeaf ==
    /\ lastEvent.op = "select"
    /\ ~HasChildren(lastEvent.node)
    /\ selectedPollutant # ""
    /\ ~lastEvent.node.hasMatchForPollutant
    /\ ~lastEvent.node.hasChildrenWithMatchForPollutant
    /\ ~lastEvent.called
    /\ Truthy(selectedBref)

\* C10: an accepted handleSelectNode(node, path) makes node the active node
\* and makes the active path the root-first list of {id, name} from the
\* top-level document down to node; expand state, filter mode, both
\* chat-context sets, the transcript and the count tables stay as they were.
C10_AcceptedSelectionFrame ==
    [][(lastEvent'.op = "select" /\ lastEvent'.called)
       => /\ selectedBref' = lastEvent'.node
          /\ IsRootFirstPath(brefHierarchy, selectedBrefPath', lastEvent'.node)
          /\ UNCHANGED <<expandedNodes, showOnlyRelevant, selectedPatents,
                         selectedBrefs, messages, brefRelevanceScores,
                         patentCountCache, relevantNodesCache, directMatches>>]_vars

\* a leaf two levels below its document was accepted, replacing another
\* selection, with nodes expanded and both context sets filled
C10_Witness ==
    /\ lastEvent.op = "select"
    /\ lastEvent.called
    /\ selectedBref = lastEvent.node
    /\ Len(selectedBrefPath) = 3
    /\ Len(selectedBrefs) > 0
    /\ selectedBrefs[1].id # selectedBref.id
    /\ Len(selectedPatents) > 0
    /\ DOMAIN expandedNodes # {}


\* C11: clearing the selection (onBrefSelect(null, [])) makes the active node
\* null and the active path empty, and leaves the BREF sections and the
\* patents of the chat context exactly as they were.
C11_ClearSelectionFrame ==
    [][lastEvent'.op = "clear"
       => /\ selectedBref' = Undef
          /\ selectedBrefPath' = <<>>
          /\ selectedBrefs' = selectedBrefs
          /\ selectedPatents' = selectedPatents]_vars

\* a selection was cleared while its section and a patent sit in the context
C11_Witness ==
    /\ lastEvent.op = "clear"
    /\ selectedBref = Undef
    /\ selectedBrefPath = <<>>
    /\ Len(selectedBrefs) > 0
    /\ Len(selectedPatents) > 0


\* a node of v, v included, carries one of the two match flags
HasFlaggedNode(v) ==
    \E n \in NodesOf(v) : n.hasMatchForPollutant \/ n.hasChildrenWithMatchForPollutant

\* the top-level entry of hierarchy h under key k
DocumentOf(h, k) == CHOOSE e \in {h.entries[i] : i \in 1..Len(h.entries)} : e.k = k

\* C12: with showOnlyRelevant on and a pollutant active the view holds a
\* top-level document exactly when a node of its subtree is flagged, at any
\* depth; in every other case the view is the hierarchy itself.
C12_FilteredView ==
    LET view == filteredBrefHierarchy(brefHierarchy, selectedPollutant, showOnlyRelevant)
    IN  IF showOnlyRelevant /\ selectedPollutant # ""
        THEN /\ \A i \in 1..Len(view.entries) :
                   \E j \in 1..Len(brefHierarchy.entries) :
                      view.entries[i] = brefHierarchy.entries[j]
             /\ \A j \in 1..Len(brefHierarchy.entries) :
                   (\E i \in 1..Len(view.entries) :
                       view.entries[i].k = brefHierarchy.entries[j].k)
                   <=> HasFlaggedNode(brefHierarchy.entries[j].v)
        ELSE view = brefHierarchy

\* C13 as stated: a patent-count badge is on screen only for a node that
\* carries a match flag itself, i.e. a member of the relevant-node set.
C13_BadgeOnlyOnFlagged ==
    \A row \in BadgedRows :
        /\ row.node.hasMatchForPollutant \/ row.node.hasChildrenWithMatchForPollutant
        /\ IsTrue(relevantNodesCache, row.node.id)

\* C13 as amended: a patent-count badge is on screen only for a node, or a
\* top-level document, that carries a match flag or has a node below it that
\* carries one; where neither holds no count is shown, not even zero.
C13_BadgeOnlyOnMatching ==
    /\ \A row \in BadgedRows : HasFlaggedNode(row.node)
    /\ \A k \in BadgedDocuments : HasFlaggedNode(DocumentOf(brefHierarchy, k).v)

\* a flagged row with its badge next to an unflagged row without one, under
\* an active pollutant
C13_Witness ==
    /\ selectedPollutant # ""
    /\ \E row \in BadgedRows : row.node.hasMatchForPollutant
    /\ \E row \in RenderedRows \ BadgedRows : ~HasFlaggedNode(row.node)


\* C14: every node starts collapsed, and after any sequence of toggles a node
\* is expanded exactly when an odd number of toggles was applied to it,
\* whatever was toggled on other nodes.
C14_ExpandedByParity ==
    \A id \in NavIds \cup {"A"} \cup DOMAIN expandedNodes \cup DOMAIN toggleParity :
        IsTrue(expandedNodes, id) <=> GetOrZero(toggleParity, id) = 1

\* one node toggled twice and collapsed again, another toggled once and open,
\* a third never toggled
C14_Witness ==
    /\ \E m \in DOMAIN toggleParity : toggleParity[m] = 0 /\ ~IsTrue(expandedNodes, m)
    /\ \E n \in DOMAIN toggleParity : toggleParity[n] = 1 /\ IsTrue(expandedNodes, n)
    /\ \E k \in NavIds : k \notin DOMAIN toggleParity /\ ~IsTrue(expandedNodes, k)


----------------------------------------------------------------------------
(* Patent Ranking Box: rankedPatents *)

RankPatentIds == {"p1", "p2", "p3"}

\* the order in which for (const patentId in brefRelevanceScores) meets them
RankOrder == <<"p1", "p2", "p3">>

\* an entry of <pollutant>_top.json; bref_relevance is {} where it is absent
Patent(id, score, brefRelevance) ==
    [id |-> id, score |-> score, bref_relevance |-> brefRelevance]

TopPatentChoices ==
    {Patent("p1", sc, br) : sc \in {67, 68, 90}, br \in {EmptyMap, "A1" :> 68}}
    \cup {Patent("p2", sc, EmptyMap) : sc \in {67, 68, 90}}

TopLists == UNION {[1..n -> TopPatentChoices] : n \in 0..MaxTop}

\* the rows a patent can have in the relevance matrix
RankRows ==
    [id \in RankPatentIds |->
        IF id = "p1" THEN {"A1" :> 67, "A1" :> 90}
        ELSE IF id = "p2" THEN {"A1" :> 68}
        ELSE {"A1" :> 70, "A2a" :> 90}]

RankMatrices ==
    UNION {{m \in [ids -> UNION {RankRows[id] : id \in RankPatentIds}] :
               \A id \in ids : m[id] \in RankRows[id]} :
              ids \in SUBSET RankPatentIds}

\* patent_index.json as loaded: the ids it has details for
PatentIndexOf(ids) == [t |-> "obj", ids |-> ids]

RankIndexes == {Undef, PatentIndexOf(RankPatentIds)}

RankLimits == {1, 2, DefaultMaxPatents}

RankBref == Node("A1", "Section A1", TRUE, FALSE, Undef)

\* getRelevanceScore(patent, brefId) for a truthy brefId
getRelevanceScore(patent, brefId, scores) ==
    IF brefId \in DOMAIN patent.bref_relevance THEN patent.bref_relevance[brefId]
    ELSE IF patent.id \in DOMAIN scores /\ brefId \in DOMAIN scores[patent.id]
    THEN scores[patent.id][brefId]
    ELSE 0

getBrefRelevantPatentCountAnyScore(bref, scores) ==
    IF ~Truthy(bref) \/ DOMAIN scores = {} THEN -1
    ELSE Cardinality({p \in DOMAIN scores :
             /\ bref.id \in DOMAIN scores[p]
             /\ scores[p][bref.id] > 0})

\* the getBrefRelevantPatentCount memo
getBrefRelevantPatentCount(bref, scores) ==
    IF ~Truthy(bref) \/ DOMAIN scores = {} THEN -1
    ELSE Cardinality({p \in DOMAIN scores :
             /\ bref.id \in DOMAIN scores[p]
             /\ scores[p][bref.id] >= RELIABILITY_THRESHOLD})

WithRelevance(patent, relevanceScore) ==
    [id |-> patent.id, score |-> patent.score,
     bref_relevance |-> patent.bref_relevance, relevanceScore |-> relevanceScore]

aboveThresholdAnyScore(patent) == patent.relevanceScore > 0

\* .filter(patent => patent.relevanceScore >= RELIABILITY_THRESHOLD)
aboveThreshold(patent) == patent.relevanceScore >= RELIABILITY_THRESHOLD

\* where a stable descending sort puts x among the already sorted entries
InsertByRelevance(sorted, x) ==
    LET before == Cardinality({i \in 1..Len(sorted) :
                      sorted[i].relevanceScore >= x.relevanceScore})
    IN  SubSeq(sorted, 1, before) \o <<x>> \o SubSeq(sorted, before + 1, Len(sorted))

RECURSIVE sortFrom(_, _, _)
sortFrom(list, i, sorted) ==
    IF i > Len(list) THEN sorted
    ELSE sortFrom(list, i + 1, InsertByRelevance(sorted, list[i]))

sortKeepingOrder(list) == list

\* .sort((a, b) => b.relevanceScore - a.relevanceScore), a stable sort
sortByRelevance(list) == sortFrom(list, 1, <<>>)

\* .slice(0, n)
slice(list, n) == SubSeq(list, 1, IF n < Len(list) THEN n ELSE Len(list))

uniquePatentsKeepingAll(combined) == combined

\* Array.from(new Map(combined.map(p => [p.id, p])).values()): one entry per
\* id, at the place of its first occurrence, holding its last occurrence
uniquePatents(combined) ==
    LET firsts == {i \in 1..Len(combined) :
                      \A j \in 1..(i - 1) : combined[j].id # combined[i].id}
        nth(k) == CHOOSE i \in firsts : Cardinality({j \in firsts : j < i}) = k - 1
        lastOf(id) == combined[CHOOSE i \in 1..Len(combined) :
                          /\ combined[i].id = id
                          /\ \A j \in (i + 1)..Len(combined) : combined[j].id # id]
    IN  [k \in 1..Cardinality(firsts) |-> lastOf(combined[nth(k)].id)]

\* the patents taken from the matrix that are not in topPatents
brefRelevantPatents(top, bref, scores, index) ==
    IF ~Truthy(index) THEN <<>>
    ELSE LET taken(id) ==
                 /\ id \in DOMAIN scores
                 /\ ~(\E k \in 1..Len(top) : top[k].id = id)
                 /\ bref.id \in DOMAIN scores[id]
                 /\ scores[id][bref.id] >= RELIABILITY_THRESHOLD
                 /\ id \in index.ids
             ids == SelectSeq(RankOrder, taken)
         IN  [k \in 1..Len(ids) |->
                 WithRelevance(Patent(ids[k], 0, bref.id :> scores[ids[k]][bref.id]),
                               scores[ids[k]][bref.id])]

\* the topPatents entries with their score for the node, those at or above
\* the threshold
topPatentsWithScores(top, bref, scores) ==
    SelectSeq([k \in 1..Len(top) |->
                  WithRelevance(top[k], getRelevanceScore(top[k], bref.id, scores))],
              aboveThreshold)

\* [...topPatentsWithScores, ...brefRelevantPatents]
combinedPatents(top, bref, scores, index) ==
    topPatentsWithScores(top, bref, scores)
    \o brefRelevantPatents(top, bref, scores, index)

\* the rankedPatents memo
rankedPatents(top, bref, scores, index, limit) ==
    IF Len(top) = 0 THEN <<>>
    ELSE IF Truthy(bref) /\ bref.id # "" /\ DOMAIN scores # {}
    THEN IF getBrefRelevantPatentCount(bref, scores) = 0 THEN <<>>
         ELSE slice(sortByRelevance(
                        uniquePatents(combinedPatents(top, bref, scores, index))),
                    limit)
    ELSE slice(sortByRelevance(
                   SelectSeq([k \in 1..Len(top) |-> WithRelevance(top[k], top[k].score)],
                             aboveThreshold)),
               limit)

\* the list on screen
RankedPatents ==
    rankedPatents(topPatents, selectedBref, brefRelevanceScores, patentIndex,
                  maxPatents)

\* the ranking box with its candidate list and index loaded
RankInit ==
    /\ selectedPollutant = "P"
    /\ selectedPollutantFilename = FilenameOf["P"]
    /\ brefHierarchy = HierarchyP
    /\ loadingBrefHierarchy = FALSE
    /\ selectedBref = Undef
    /\ selectedBrefPath = <<>>
    /\ selectedPatents = <<>>
    /\ selectedBrefs = <<>>
    /\ expandedNodes = EmptyMap
    /\ toggleParity = EmptyMap
    /\ showOnlyRelevant = FALSE
    /\ brefRelevanceScores = EmptyMap
    /\ patentCountCache = EmptyMap
    /\ relevantNodesCache = EmptyMap
    /\ directMatches = EmptyMap
    /\ loadingRelevanceScores = FALSE
    /\ messages = <<[sender |-> "system", text |-> "welcome"]>>
    /\ isLoading = FALSE
    /\ pendingCalls = <<>>
    /\ error = Undef
    /\ topPatents \in TopLists
    /\ patentIndex \in RankIndexes
    /\ maxPatents \in RankLimits
    /\ pendingHierarchy = <<>>
    /\ pendingScores = <<>>
    /\ initialLoad = "done"
    /\ aggRuns = 0
    /\ firstRun = Undef
    /\ traversal = Undef
    /\ dataCache = EmptyCache
    /\ now = 0
    /\ storeCalls = <<>>
    /\ loadCount = 0
    /\ lastEvent = NoEvent

\* the ranking box's fetchBrefScores: setBrefRelevanceScores(scores) or ({})
RankScoresLoaded ==
    /\ \E scores \in RankMatrices : brefRelevanceScores' = scores
    /\ lastEvent' = OtherEvent
    /\ UNCHANGED <<dashVars, selVars, ctxVars, viewVars, patentCountCache,
                   relevantNodesCache, directMatches, aggRuns, firstRun, traversal, netVars,
                   chatVars, rankVars, storeVars>>

\* the selectedBref prop changes: a leaf is selected or the selection cleared
RankBrefChanged ==
    /\ \E bref \in {Undef, RankBref} :
          /\ bref # selectedBref
          /\ handleBrefSelect(bref,
                 IF Truthy(bref)
                 THEN <<[id |-> "A", name |-> "A"], [id |-> bref.id, name |-> bref.name]>>
                 ELSE <<>>)
    /\ lastEvent' = OtherEvent
    /\ UNCHANGED <<dashVars, ctxVars, viewVars, aggVars, netVars, chatVars, rankVars, storeVars>>

RankNext ==
    \/ RankScoresLoaded
    \/ RankBrefChanged

SpecRank == RankInit /\ [][RankNext]_vars

\* an id occurs twice in list
HasRepeatedId(list) ==
    \E i, j \in 1..Len(list) : i < j /\ list[i].id = list[j].id

\* the ranking runs on the BREF branch
RanksByBref ==
    Truthy(selectedBref) /\ selectedBref.id # "" /\ DOMAIN brefRelevanceScores # {}

\* C15: the ranked list has at most maxPatents entries and every entry has a
\* relevanceScore at or above the threshold.
C15_LengthAndThreshold ==
    /\ Len(RankedPatents) <= maxPatents
    /\ \A i \in 1..Len(RankedPatents) :
          RankedPatents[i].relevanceScore >= RELIABILITY_THRESHOLD

\* a BREF ranking cut down to the limit, fed from the candidate list and from
\* the matrix, with a candidate below the threshold left out
C15_Witness ==
    /\ RanksByBref
    /\ Len(RankedPatents) = maxPatents
    /\ \E i \in 1..Len(RankedPatents) : RankedPatents[i].id = "p3"
    /\ \E k \in 1..Len(topPatents) :
          /\ getRelevanceScore(topPatents[k], selectedBref.id, brefRelevanceScores)
                 < RELIABILITY_THRESHOLD
          /\ getRelevanceScore(topPatents[k], selectedBref.id, brefRelevanceScores) > 0
    /\ Cardinality({id \in DOMAIN brefRelevanceScores :
           /\ "A1" \in DOMAIN brefRelevanceScores[id]
           /\ brefRelevanceScores[id]["A1"] >= RELIABILITY_THRESHOLD}) > maxPatents


\* C16 as stated: no patent id appears twice in the ranked list, whatever
\* the inputs.
C16_NoRepeatedId == ~HasRepeatedId(RankedPatents)

\* C16 as amended: on the BREF branch no id appears twice in the ranked list,
\* even when topPatents repeats an id or a patent is in topPatents and in the
\* matrix; off the BREF branch the list repeats an id only if topPatents does.
C16_NoRepeatedIdOnBrefBranch ==
    /\ RanksByBref => ~HasRepeatedId(RankedPatents)
    /\ HasRepeatedId(RankedPatents) => HasRepeatedId(topPatents)

\* a BREF ranking with one entry for a patent that topPatents lists twice and
\* the matrix scores as well, next to a patent taken from the matrix
C16_Witness ==
    /\ RanksByBref
    /\ HasRepeatedId(topPatents)
    /\ Len(RankedPatents) = 2
    /\ RankedPatents[1].id # RankedPatents[2].id
    /\ \E i \in 1..2 :
          /\ RankedPatents[i].id = topPatents[1].id
          /\ RankedPatents[i].id \in DOMAIN brefRelevanceScores
    /\ \E i \in 1..2 : RankedPatents[i].id = "p3"

\* the place of candidate k in the ranking by score: one more than the number
\* of eligible candidates with a higher score, or the same score and earlier
PlaceByScore(k) ==
    1 + Cardinality({j \in 1..Len(topPatents) :
            /\ topPatents[j].score >= RELIABILITY_THRESHOLD
            /\ \/ topPatents[j].score > topPatents[k].score
               \/ topPatents[j].score = topPatents[k].score /\ j < k})

\* C17: with no BREF node selected the ranked list is the topPatents entries
\* with score at or above the threshold, each with relevanceScore = score, in
\* descending order of relevanceScore (ties in their original order), cut to
\* maxPatents entries.
C17_PollutantRanking ==
    selectedBref = Undef =>
        LET eligible == {k \in 1..Len(topPatents) :
                            topPatents[k].score >= RELIABILITY_THRESHOLD}
        IN  /\ Len(RankedPatents) =
                   IF Cardinality(eligible) < maxPatents THEN Cardinality(eligible)
                   ELSE maxPatents
            /\ \A k \in eligible :
                  PlaceByScore(k) <= maxPatents =>
                      RankedPatents[PlaceByScore(k)] =
                          WithRelevance(topPatents[k], topPatents[k].score)

\* no BREF selected, the better of two eligible candidates listed second, and
\* the limit cutting the other one off
C17_Witness ==
    /\ selectedBref = Undef
    /\ DOMAIN brefRelevanceScores # {}
    /\ Len(topPatents) = 2
    /\ topPatents[1].score >= RELIABILITY_THRESHOLD
    /\ topPatents[2].score > topPatents[1].score
    /\ maxPatents = 1
    /\ RankedPatents = <<WithRelevance(topPatents[2], topPatents[2].score)>>

\* the scenario of C17: topPatents = [{id: p1, score: 0.9}], limit 5
C17_WitnessScenario ==
    /\ selectedBref = Undef
    /\ topPatents = <<Patent("p1", 90, EmptyMap)>>
    /\ maxPatents = DefaultMaxPatents
    /\ RankedPatents = <<WithRelevance(Patent("p1", 90, EmptyMap), 90)>>

\* C18: with a BREF node selected and an empty relevance matrix the ranked
\* list is empty, whatever topPatents contains.
C18_EmptyMatrixEmptyList ==
    (Truthy(selectedBref) /\ DOMAIN brefRelevanceScores = {}) => RankedPatents = <<>>

----------------------------------------------------------------------------
(* C19: the two chat-context sets under repeated add and stray remove *)

C19_WitnessRemove ==
    /\ lastEvent.op = "removePatent"
    /\ ~lastEvent.wasMember
    /\ Len(selectedPatents) > 0

----------------------------------------------------------------------------
(* C20: handleSendMessage with both context sets empty *)

NoContext == Len(selectedPatents) = 0 /\ Len(selectedBrefs) = 0

\* C20 (as stated): handleSendMessage invoked while both context sets are
\* empty appends exactly one system message, appends no user message, starts
\* no call, and leaves the busy flag false.
C20_RejectsWithoutContext ==
    [][(lastEvent'.op = "send" /\ NoContext)
           => /\ Len(messages') = Len(messages) + 1
              /\ SubSeq(messages', 1, Len(messages)) = messages
              /\ messages'[Len(messages')].sender = "system"
              /\ pendingCalls' = pendingCalls
              /\ isLoading' = FALSE]_vars

\* C20 (amended): with both context sets empty, handleSendMessage on a text
\* that is blank after trimming, while not busy, changes nothing; otherwise
\* it appends exactly one system message, appends no user message, starts no
\* call, and leaves the busy flag as it was (true when a call is pending).
C20_RejectsNonBlankWithoutContext ==
    [][(lastEvent'.op = "send" /\ NoContext)
           => IF trim(lastEvent'.message) = "" /\ ~isLoading
              THEN UNCHANGED <<messages, isLoading, pendingCalls, error>>
              ELSE /\ Len(messages') = Len(messages) + 1
                   /\ SubSeq(messages', 1, Len(messages)) = messages
                   /\ messages'[Len(messages')].sender = "system"
                   /\ pendingCalls' = pendingCalls
                   /\ isLoading' = isLoading]_vars

\* a non-blank text has just been rejected for want of context
C20_Witness ==
    /\ lastEvent.op = "send"
    /\ trim(lastEvent.message) # ""
    /\ NoContext
    /\ messages[Len(messages)] = Message("system", "needContext")
    /\ ~isLoading

\* the same rejection while an earlier call is still pending: the flag stays true
C20_WitnessBusy ==
    /\ lastEvent.op = "send"
    /\ NoContext
    /\ messages[Len(messages)] = Message("system", "needContext")
    /\ isLoading
    /\ Len(pendingCalls) > 0

\* a blank text has just been ignored
C20_WitnessBlank ==
    /\ lastEvent.op = "send"
    /\ trim(lastEvent.message) = ""
    /\ NoContext
    /\ Len(messages) = 1

----------------------------------------------------------------------------
(* C21: an accepted send and its one reply *)

IsUserMessage(msg) == msg.sender = "user"

IsReply(msg) == msg.sender = "assistant" \/ msg = Message("system", "error")

\* a send the two early returns of handleSendMessage let through
Accepted(message) == ~NoContext /\ ~(trim(message) = "" /\ ~isLoading)

C21_AcceptedSendStep ==
    [][(lastEvent'.op = "send" /\ Accepted(lastEvent'.message))
           => /\ messages' = Append(messages, Message("user", lastEvent'.message))
              /\ isLoading'
              /\ Len(pendingCalls') = Len(pendingCalls) + 1]_vars

C21_ReplyStep ==
    [][lastEvent'.op = "callResolved"
           => /\ Len(pendingCalls') = Len(pendingCalls) - 1
              /\ Len(messages') = Len(messages) + 1
              /\ SubSeq(messages', 1, Len(messages)) = messages
              /\ messages'[Len(messages')] =
                     IF lastEvent'.outcome = "ok" THEN Message("assistant", "answer")
                     ELSE Message("system", "error")
              /\ lastEvent'.outcome = "fail" => error' = ErrorText
              /\ ~isLoading']_vars

C21_OneReplyPerCall ==
    [](Len(SelectSeq(messages, IsUserMessage))
           = Len(SelectSeq(messages, IsReply)) + Len(pendingCalls))

C21_EveryCallAnswered ==
    (Len(pendingCalls) > 0) ~> (Len(pendingCalls) = 0 /\ ~isLoading)

\* C21: every accepted send appends the user message, sets the busy flag and
\* starts one call; every call is eventually answered by exactly one appended
\* reply, an assistant message on success and a system error message with
\* the error banner set on failure, and the busy flag is false after it.
C21_AcceptedSendGetsOneReply ==
    /\ C21_AcceptedSendStep
    /\ C21_ReplyStep
    /\ C21_OneReplyPerCall
    /\ C21_EveryCallAnswered

\* a call has failed: its user message is followed by the error message,
\* the banner is set, the flag is down and nothing is pending
C21_Witness ==
    /\ lastEvent.op = "callResolved"
    /\ lastEvent.outcome = "fail"
    /\ Len(messages) >= 3
    /\ messages[Len(messages) - 1].sender = "user"
    /\ messages[Len(messages)] = Message("system", "error")
    /\ error = ErrorText
    /\ ~isLoading
    /\ pendingCalls = <<>>

----------------------------------------------------------------------------
(* C22: calls outstanding at one time *)

\* C22: at most one call to the collaborator is outstanding at any time; no
\* action of the chat panel taken while the busy flag is set starts a second.
C22_AtMostOneCall == Len(pendingCalls) <= 1

----------------------------------------------------------------------------
(* C23: the transcript is append-only *)

IsPrefix(a, b) == Len(a) <= Len(b) /\ SubSeq(b, 1, Len(a)) = a

\* C23: every step, whether a send, an answer, a failure or an edit of the
\* context sets, leaves the earlier transcript a prefix of the new one.
C23_AppendOnly == [][IsPrefix(messages, messages')]_vars

\* a transcript holding a rejected send, an accepted send and its reply,
\* followed by an edit of the context
C23_Witness ==
    /\ Len(messages) >= 4
    /\ \E k \in 1..Len(messages) : messages[k] = Message("system", "needContext")
    /\ \E k \in 1..Len(messages) : messages[k].sender = "user"
    /\ \E k \in 1..Len(messages) : IsReply(messages[k])
    /\ lastEvent.op \in {"removePatent", "removeBref", "clearPatents", "clearBrefs",
                         "togglePatent", "addBref"}

----------------------------------------------------------------------------
(* C24: a pollutant switch while fetches are in flight *)

\* every response has arrived
Settled == pendingHierarchy = <<>> /\ pendingScores = <<>> /\ initialLoad = "done"

OtherFiles == {FilenameOf[pol] : pol \in Pollutants \ {selectedPollutant}}

\* C24: once every response has arrived, the hierarchy, the relevance
\* matrix, the relevant-node set and the count table are not those of a
\* pollutant other than the selected one, whatever the order of arrival.
C24_LatestPollutantWins ==
    (Settled /\ selectedPollutant # "")
        => \A file \in OtherFiles :
              /\ brefHierarchy # PollutantHierarchy(file)
              /\ brefRelevanceScores # PollutantMatrix(file)
              /\ relevantNodesCache # findRelevantNodes(PollutantHierarchy(file))


\* C25: while a fetch of a resource is in flight, no second fetch of the same
\* resource is started -- at no time do two load calls await the same file.
C25_OneFetchPerResource ==
    \A i, j \in 1..Len(storeCalls) :
        i # j => storeCalls[i].url # storeCalls[j].url


\* the loaders that keep their result in a timestamped entry of their own and
\* fall back on it
EntryLoaders == SimpleLoaders \cup {"loadBrefHierarchy", "loadBrefFlatMap"}

\* a load call has just returned after its fetch failed
FailedLoad == lastEvent'.op = "loaded" /\ lastEvent'.outcome = "failed"

\* the last cached value of a loader's own entry, expired or not, else its
\* empty default
LastCachedOrDefault(call) ==
    IF dataCache[KeyOf(call)].data # Undef
    THEN dataCache[KeyOf(call)].data
    ELSE DefaultOf(call)

C26_WitnessDefault ==
    /\ lastEvent.op = "loaded"
    /\ lastEvent.outcome = "failed"
    /\ lastEvent.call = "loadPollutantTopPatents"
    /\ lastEvent.value = DefaultOf("loadPollutantTopPatents")

\* a failed fetch of a pollutant's hierarchy answered with the generic one
\* while the pollutant's own expired entry is there
C26_WitnessGeneric ==
    /\ lastEvent.op = "loaded"
    /\ lastEvent.outcome = "failed"
    /\ lastEvent.call = "loadPollutantBrefHierarchy"
    /\ dataCache["p_hierarchy"].data # Undef
    /\ lastEvent.value.t = "data"
    /\ lastEvent.value.res = "hierarchy"


\* C27: a load returns a cached value without fetching only if its entry holds
\* data younger than CACHE_EXPIRATION; a fetch that succeeds replaces the entry
\* and resets its timestamp.
C27_FreshBeforeReuse ==
    [][/\ (lastEvent'.op = "loaded" /\ ~lastEvent'.fetched) =>
             /\ dataCache[KeyOf(lastEvent'.call)].data # Undef
             /\ now - dataCache[KeyOf(lastEvent'.call)].timestamp < CACHE_EXPIRATION
       /\ (lastEvent'.op = "loaded" /\ lastEvent'.outcome = "ok") =>
             dataCache'[KeyOf(lastEvent'.call)] =
                 [data |-> lastEvent'.value, timestamp |-> now]]_vars


\* C28 as stated: when the fetch of the pollutant's hierarchy fails, the
\* navigator's hierarchy becomes the generic hierarchy and the loading flag
\* is cleared.
C28_FallbackIsGeneric ==
    [][(lastEvent'.op = "hierarchyLoaded" /\ ~lastEvent'.ok) =>
          /\ brefHierarchy' = HierarchyGeneric
          /\ ~loadingBrefHierarchy']_vars

\* C28, amended: when the fetch of the pollutant's hierarchy fails, the
\* navigator's hierarchy becomes the generic hierarchy if that one is cached or
\* can be fetched, and the empty hierarchy if it is neither; never a
\* pollutant's hierarchy; and the loading flag is cleared.
C28_FallbackIsGenericOrEmpty ==
    [][(lastEvent'.op = "hierarchyLoaded" /\ ~lastEvent'.ok) =>
          /\ \/ brefHierarchy' = HierarchyGeneric
             \/ /\ brefHierarchy' = KeyedMap(<<>>)
                /\ dataCache'["brefHierarchy"].data = Undef
          /\ ~loadingBrefHierarchy']_vars

\* the failed fetch for pollutant Q replaced the hierarchy of P by the generic one
C28_Witness ==
    /\ lastEvent.op = "hierarchyLoaded"
    /\ ~lastEvent.ok
    /\ lastEvent.file = "q"
    /\ brefHierarchy = HierarchyGeneric
    /\ selectedPollutant = "Q"
    /\ ~loadingBrefHierarchy


\* a request has just been sent to the collaborator
RequestSent == lastEvent.op = "send" /\ lastEvent.request # <<>>

\* the transcript as it was when the request was assembled: the user message
\* of the send is appended in the same step
TranscriptBefore == SubSeq(messages, 1, Len(messages) - 1)

\* C29, frame of the request: input[0] is the system prompt assembled from the
\* context, the last entry is the new user turn, and the entries between are
\* the non-system messages of the transcript, in order.
C29_RequestFrame ==
    RequestSent =>
        LET input == lastEvent.request
            history == chatHistoryOf(TranscriptBefore)
        IN  /\ input[1] = [role |-> "system",
                           text |-> createSystemPrompt(selectedPatents, selectedBrefs,
                                                       selectedPollutant)]
            /\ input[Len(input)] = [role |-> "user", text |-> lastEvent.message]
            /\ Len(input) = Len(history) + 2
            /\ \A k \in 1..Len(history) :
                  /\ input[k + 1].text = history[k].text
                  /\ input[k + 1].role = history[k].sender

\* C29: every request has the system prompt first and the new user turn
\* last, and in between the earlier turns alternate: user, assistant, user,
\* assistant, ...
C29_RequestAlternates ==
    RequestSent =>
        LET input == lastEvent.request
        IN  /\ C29_RequestFrame
            /\ \A k \in 2..(Len(input) - 1) :
                  input[k].role = IF k % 2 = 0 THEN "user" ELSE "assistant"
            /\ Len(input) % 2 = 0


\* one of the two tables is replaced
TablesChange ==
    patentCountCache' # patentCountCache \/ relevantNodesCache' # relevantNodesCache

\* the pollutant's filename changes or setBrefHierarchy is called
InputsChange ==
    \/ selectedPollutantFilename' # selectedPollutantFilename
    \/ lastEvent'.op = "hierarchyLoaded"
    \/ initialLoad' # initialLoad

\* an event of the navigator, of the context sets or of the chat panel
UiStep ==
    \/ lastEvent'.op \in {"select", "clear", "addBref", "clearBrefs", "send",
                          "callResolved"}
    \/ expandedNodes' # expandedNodes
    \/ showOnlyRelevant' # showOnlyRelevant

\* C30: the relevant-node set and the count table are replaced only in a run
\* of the effect keyed on the pollutant and the hierarchy: a run starts only in
\* a step that changes the pollutant or sets the hierarchy, the tables change
\* only in such a step or when a run completes, and expanding, filtering,
\* selecting, clearing, editing the context and sending leave both unchanged.
C30_RecomputedOnlyOnChange ==
    [][/\ TablesChange => (Len(pendingScores') < Len(pendingScores) \/ InputsChange)
       /\ Len(pendingScores') > Len(pendingScores) => InputsChange
       /\ UiStep => (~TablesChange /\ pendingScores' = pendingScores)]_vars

\* a message was sent to the collaborator while the tables were filled
C30_Witness ==
    /\ lastEvent.op = "send"
    /\ lastEvent.request # <<>>
    /\ DOMAIN patentCountCache # {}
    /\ DOMAIN relevantNodesCache # {}

\* a node was selected while the tables were filled
C30_WitnessSelect ==
    /\ lastEvent.op = "select"
    /\ Truthy(selectedBref)
    /\ DOMAIN patentCountCache # {}


\* C31: the recursion of findRelevantNodes and calculateCumulativeCounts is
\* capped at about 64 levels -- on a chain nested MaxDepth levels deep, one
\* more than that, neither function is ever called on the node at the bottom.
C31_DepthCapped ==
    Truthy(traversal) => traversal.level < MaxDepth

----------------------------------------------------------------------------
(* C32-C34: the BREF branch of the ranking *)

\* the combined candidate list of the state
CombinedPatents ==
    combinedPatents(topPatents, selectedBref, brefRelevanceScores, patentIndex)

\* the matrix score of a patent for the selected node, 0 if it has none
MatrixScore(id) ==
    IF /\ id \in DOMAIN brefRelevanceScores
       /\ selectedBref.id \in DOMAIN brefRelevanceScores[id]
    THEN brefRelevanceScores[id][selectedBref.id]
    ELSE 0

\* C32: with a BREF node selected, every entry of the ranked list is the
\* first entry with its id in the combined candidate list, relevanceScore
\* included.
C32_FirstOccurrenceWins ==
    RanksByBref =>
        \A i \in 1..Len(RankedPatents) :
            LET first == CHOOSE k \in 1..Len(CombinedPatents) :
                             /\ CombinedPatents[k].id = RankedPatents[i].id
                             /\ \A j \in 1..(k - 1) :
                                   CombinedPatents[j].id # RankedPatents[i].id
            IN  RankedPatents[i] = CombinedPatents[first]

\* C33: with a BREF node selected and a non-empty matrix in which no patent
\* scores at or above the threshold for the node, the ranked list is empty,
\* whatever topPatents holds and whatever inline BREF scores its entries carry.
C33_NoRelevantPatentEmptyList ==
    (/\ RanksByBref
     /\ \A id \in DOMAIN brefRelevanceScores : MatrixScore(id) < RELIABILITY_THRESHOLD)
        => RankedPatents = <<>>

\* a node selected, a matrix whose only score for the node is below the
\* threshold, a candidate carrying an inline score for the node at the
\* threshold, and an empty ranked list
C33_Witness ==
    /\ RanksByBref
    /\ \E id \in DOMAIN brefRelevanceScores :
          MatrixScore(id) > 0 /\ MatrixScore(id) < RELIABILITY_THRESHOLD
    /\ \A id \in DOMAIN brefRelevanceScores : MatrixScore(id) < RELIABILITY_THRESHOLD
    /\ \E k \in 1..Len(topPatents) :
          /\ selectedBref.id \in DOMAIN topPatents[k].bref_relevance
          /\ topPatents[k].bref_relevance[selectedBref.id] >= RELIABILITY_THRESHOLD
          /\ topPatents[k].score >= RELIABILITY_THRESHOLD
    /\ Truthy(patentIndex)
    /\ RankedPatents = <<>>

\* C34: with a BREF node selected and a non-empty matrix, for every topPatents
\* list, the empty one included, a ranked list shorter than the limit holds
\* every patent of the matrix that scores at or above the threshold for the
\* node and is not in topPatents, with relevanceScore = its matrix score and
\* base score 0.
C34_MatrixCandidatesIncluded ==
    (RanksByBref /\ Len(RankedPatents) < maxPatents) =>
        \A id \in DOMAIN brefRelevanceScores :
            (/\ MatrixScore(id) >= RELIABILITY_THRESHOLD
             /\ \A k \in 1..Len(topPatents) : topPatents[k].id # id)
                => \E i \in 1..Len(RankedPatents) :
                      /\ RankedPatents[i].id = id
                      /\ RankedPatents[i].relevanceScore = MatrixScore(id)
                      /\ RankedPatents[i].score = 0

----------------------------------------------------------------------------
(* C35: the context sets hold no id twice *)

\* C35: in every reachable state, after any interleaving of patent toggles
\* from the ranking box, the details box and the patent space, BREF adds,
\* removes, clears and pollutant changes, neither context set holds two
\* entries with the same id.
C35_NoRepeatedIdInContext ==
    /\ ~HasRepeatedId(selectedPatents)
    /\ ~HasRepeatedId(selectedBrefs)

\* a BREF section added again while it is in the context, with a patent in
\* the other set
C35_Witness ==
    /\ lastEvent.op = "addBref"
    /\ lastEvent.wasMember
    /\ InContext(selectedBrefs, lastEvent.id)
    /\ Len(selectedPatents) > 0

\* a patent put into the context from the patent space after a pollutant
\* change emptied the set
C35_WitnessSpace ==
    /\ lastEvent.op = "togglePatent"
    /\ lastEvent.via = "doubleClick"
    /\ InContext(selectedPatents, lastEvent.id)
    /\ selectedPollutant = "Q"

----------------------------------------------------------------------------
(* C36: the active node after a pollutant switch *)

\* C36: whenever a pollutant is active and no hierarchy load is in flight,
\* the active BREF node is null or a leaf of the current hierarchy that is
\* flagged for the active pollutant -- also after a pollutant switch with a
\* node selected, and after a selection made while the new hierarchy loads.
C36_ActiveNodeIsRelevantLeaf ==
    (selectedPollutant # "" /\ pendingHierarchy = <<>> /\ initialLoad = "done") =>
        \/ selectedBref = Undef
        \/ \E n \in NodesOf(brefHierarchy) :
              /\ n.id = selectedBref.id
              /\ ~HasChildren(n)
              /\ isFlagged(n)

----------------------------------------------------------------------------
(* C37: what a pollutant change touches *)

\* C37: handlePollutantChange sets the active pollutant and its filename and
\* empties the patent context set; it leaves the BREF context set, the chat
\* transcript, the expand/collapse state and the filter mode unchanged.
C37_PollutantChangeFrame ==
    [][lastEvent'.op = "pollutantChange" =>
          /\ selectedPollutant' = lastEvent'.pollutant
          /\ selectedPollutantFilename' = FilenameOf[lastEvent'.pollutant]
          /\ selectedPatents' = <<>>
          /\ selectedBrefs' = selectedBrefs
          /\ messages' = messages
          /\ expandedNodes' = expandedNodes
          /\ showOnlyRelevant' = showOnlyRelevant]_vars

\* the pollutant was changed from P to Q on a dashboard that had a BREF
\* section in the context, an exchange in the transcript, a document expanded
\* and the filter on
C37_Witness ==
    /\ lastEvent.op = "pollutantChange"
    /\ selectedPollutant = "Q"
    /\ selectedPollutantFilename = "q"
    /\ selectedPatents = <<>>
    /\ selectedBrefs # <<>>
    /\ Len(messages) = 3
    /\ IsTrue(expandedNodes, "A")
    /\ showOnlyRelevant

----------------------------------------------------------------------------
(* C38: the loading flags and the fetches in flight *)

\* C38: a loading flag is true for as long as a fetch started under it is in
\* flight, also when two loads overlap after a pollutant switch: with a
\* hierarchy load of the effect outstanding loadingBrefHierarchy is true, with
\* a scores load of the selector outstanding loadingRelevanceScores is true.
C38_FlagTrueWhileInFlight ==
    /\ pendingHierarchy # <<>> => loadingBrefHierarchy
    /\ pendingScores # <<>> => loadingRelevanceScores

----------------------------------------------------------------------------
(* C39, C40: failed fetches and clearCache *)

\* C39: a failed fetch never populates the cache -- no entry holds the empty
\* default a failed load fell back to, nor counts derived from it (a count of
\* 0, or no count at all), so the next load of the resource fetches again.
C39_FailedFetchNotCached ==
    \A key \in CacheKeys :
        LET data == dataCache[key].data
        IN  Truthy(data) =>
                /\ data.t # "default"
                /\ data.t = "counts" =>
                      /\ DOMAIN data.counts # {}
                      /\ \A pol \in DOMAIN data.counts : data.counts[pol] > 0

\* C40: after clearCache() every cache is empty, and the load call that
\* follows performs a fetch instead of returning from a cache.
C40_ClearedCachesRefetch ==
    [][/\ lastEvent'.op = "clearCache" =>
              \A key \in CacheKeys : ~Truthy(dataCache'[key].data)
       /\ (lastEvent.op = "clearCache" /\ lastEvent'.op = "loaded") =>
              lastEvent'.fetched]_vars

====
